---- MODULE Spec2Model ----
(***************************************************************************)
(* font-tool: the run-length codec of font_tool.cpp (rleEncode/rleDecode). *)
(* One call is executed step by step: one step per iteration of the        *)
(* encoder's for loop, one step per packet read and per packet replication *)
(* of the decoder.  A call of rleEncode that returns a size is followed by *)
(* the decode of what it produced (the round trip of spec section 4.1).    *)
(*                                                                         *)
(* Further parts, each with a specification of its own:                    *)
(*   SpecApi   the Compressor classes of compressor.cpp, the statistics    *)
(*             helpers and the two variants of formatMemoryUnit;           *)
(*   SpecTool  one run of the tool (main, runFontTool,                     *)
(*             compressFontBitmapData, DataWriter);                        *)
(*   SpecPar   two calls of the codec whose steps interleave.              *)
(***************************************************************************)
EXTENDS Integers, Sequences, FiniteSets, TLC

VARIABLES pc, call, enc, dec, api, fmt, tool, par, cmd, parser

vars == <<pc, call, enc, dec, api, fmt, tool, par, cmd, parser>>

-----------------------------------------------------------------------------
(* Program constants (8-bit run counter: RLE_WORD_SIZE_16 is not defined).  *)

RLE_MaxCount == 255

RLE_WordSize == 1

(* Bounds of the model.                                                     *)

MaxLen == 3

MaxOut == 4

MaxPkts == 2

MaxCnt == 2

MaxCap == 4

MaxLib == 2

MaxFmtCalls == 9

-----------------------------------------------------------------------------
(* Inputs.                                                                  *)

ByteVals == {0, 1, 255}

\* What a read outside the bytes of the input buffer may deliver.
GarbageVals == {0, 255}

\* v, n times.
Rep(v, n) == [k \in 1..n |-> v]

SeqsUpTo(S, n) == UNION {[1..k -> S] : k \in 0..n}

ShortInputs == SeqsUpTo(ByteVals, MaxLen)

\* The two buffers of the spec's concrete scenarios.
ExampleInputs == {<<65, 65, 65, 66>>, <<0, 1, 2>>}

\* Runs at and around the maximum of the run counter, alone or between
\* neighbours of the same or of another value.
LongRunLens == {RLE_MaxCount, RLE_MaxCount + 1, 2 * RLE_MaxCount + 1}

LongInputs ==
    {p \o Rep(v, n) \o s : p \in SeqsUpTo(ByteVals, 1), s \in SeqsUpTo(ByteVals, 1),
                           v \in {0, 255}, n \in LongRunLens}

IsLong(B) == Len(B) >= RLE_MaxCount

OutSizesFor(B) ==
    IF IsLong(B) THEN {1, 3, Len(B)}
    ELSE (0..MaxOut) \cup {-1, Len(B), 2 * Len(B)}

InSizesFor(B) == IF IsLong(B) THEN {Len(B)} ELSE {Len(B), 0, -1}

\* Calls of rleEncode with both buffers present.
EncodeBufferCalls ==
    {[input |-> B, inNull |-> FALSE, outNull |-> FALSE,
      inSizeBytes |-> isz, outSizeBytes |-> osz] :
        <<B, isz, osz>> \in
            UNION {{<<b, x, y>> : x \in InSizesFor(b), y \in OutSizesFor(b)} :
                   b \in ShortInputs \cup ExampleInputs \cup LongInputs}}

\* Calls of rleEncode or rleDecode with a null input or output pointer.
NullCalls ==
    {[input |-> IF n[1] THEN <<>> ELSE B, inNull |-> n[1], outNull |-> n[2],
      inSizeBytes |-> isz, outSizeBytes |-> osz] :
        B \in {<<1, 0>>}, n \in {<<TRUE, FALSE>>, <<FALSE, TRUE>>, <<TRUE, TRUE>>},
        isz \in {0, 2}, osz \in {0, 2}}

EncodeCalls == EncodeBufferCalls \cup NullCalls

\* Compressed streams handed to rleDecode on their own: up to MaxPkts packets
\* (count, value), well formed or not (a count of 0, a trailing odd byte).
Packets == {<<c, v>> : c \in 0..MaxCnt, v \in {0, 255}}

RECURSIVE Flatten(_)
Flatten(ps) == IF ps = <<>> THEN <<>> ELSE Head(ps) \o Flatten(Tail(ps))

Streams ==
    {Flatten(ps) \o t : ps \in SeqsUpTo(Packets, MaxPkts), t \in {<<>>, <<1>>}}

DecodeBufferCalls ==
    {[input |-> S, inNull |-> FALSE, outNull |-> FALSE,
      inSizeBytes |-> isz, outSizeBytes |-> osz] :
        <<S, isz, osz>> \in
            UNION {{<<s, x, y>> : x \in {Len(s), -1}, y \in (-1)..MaxCap} : s \in Streams}}

DecodeCalls == DecodeBufferCalls \cup NullCalls

-----------------------------------------------------------------------------
(* State of a call of rleEncode and of a call of rleDecode.                 *)
(*   input        the bytes of the input buffer (offset k is input[k+1])    *)
(*   out          the bytes written through the output pointer, in order;   *)
(*                the output pointer is at offset Len(out)                  *)
(*   read         1 + the highest input offset read so far (0: none)        *)
(*   ret          the returned value, once pc is at the return              *)

EncStart(c) ==
    [input |-> c.input, inNull |-> c.inNull, outNull |-> c.outNull,
     inSizeBytes |-> c.inSizeBytes, outSizeBytes |-> c.outSizeBytes,
     i |-> 0, rleCount |-> 0, rleByte |-> 0, bytesWritten |-> 0,
     out |-> <<>>, read |-> 0, ret |-> 0]

DecStart(c) ==
    [input |-> c.input, inNull |-> c.inNull, outNull |-> c.outNull,
     inSizeBytes |-> c.inSizeBytes, outSizeBytes |-> c.outSizeBytes,
     i |-> 0, rleCount |-> 0, rleByte |-> 0, bytesWritten |-> 0,
     out |-> <<>>, read |-> 0, ret |-> 0]

NoCall == [input |-> <<>>, inNull |-> FALSE, outNull |-> FALSE,
           inSizeBytes |-> 0, outSizeBytes |-> 0]

\* The parts of the program a specification does not run stay idle.
Idle == [pc |-> "idle"]

CodecIdle ==
    /\ call = "none"
    /\ pc = "idle"
    /\ enc = EncStart(NoCall)
    /\ dec = DecStart(NoCall)

Init ==
    /\ \/ /\ call = "encode"
          /\ pc = "enc_entry"
          /\ \E c \in EncodeCalls : enc = EncStart(c)
          /\ dec = DecStart(NoCall)
       \/ /\ call = "decode"
          /\ pc = "dec_entry"
          /\ enc = EncStart(NoCall)
          /\ \E c \in DecodeCalls : dec = DecStart(c)
    /\ api = Idle /\ fmt = Idle /\ tool = Idle /\ par = Idle /\ cmd = Idle /\ parser = Idle

Max(a, b) == IF a >= b THEN a ELSE b

-----------------------------------------------------------------------------
(* rleEncode                                                                *)

\* Variant: the test of outSizeBytes is missing.
BadArgs_NoOutSize(inNull, outNull, inSizeBytes, outSizeBytes) ==
    \/ outNull \/ inNull
    \/ inSizeBytes <= 0

\* Variant: an input of zero bytes is let through.
BadArgs_ZeroInOk(inNull, outNull, inSizeBytes, outSizeBytes) ==
    \/ outNull \/ inNull
    \/ outSizeBytes <= 0 \/ inSizeBytes < 0

\* if (!output || !input) return -1; if (outSizeBytes <= 0 || inSizeBytes <= 0) return -1;
BadArgs(inNull, outNull, inSizeBytes, outSizeBytes) ==
    \/ outNull \/ inNull
    \/ outSizeBytes <= 0 \/ inSizeBytes <= 0

\* Variant: a run is only ended by a different byte.
EndOfRun_NoMax(b, rleByte, rleCount) == b /= rleByte

\* Variant: a run is cut one byte before the counter's maximum.
EndOfRun_OneEarly(b, rleByte, rleCount) ==
    b /= rleByte \/ rleCount = RLE_MaxCount - 1

\* "Output when we hit the end of a sequence or the max size of a RLE word"
EndOfRun(b, rleByte, rleCount) == b /= rleByte \/ rleCount = RLE_MaxCount

\* Variant: room for a 16-bit counter is asked for (RLE_WORD_SIZE_16).
NoSpace_Word16(bytesWritten, outSizeBytes) ==
    bytesWritten + 2 * RLE_WordSize + 1 > outSizeBytes

\* Variant: the value byte of the packet is not counted.
NoSpace_WordOnly(bytesWritten, outSizeBytes) ==
    bytesWritten + RLE_WordSize > outSizeBytes

\* (bytesWritten + sizeof(RLE_Word) + sizeof(RLE_Byte)) > unsigned(outSizeBytes)
NoSpace(bytesWritten, outSizeBytes) ==
    bytesWritten + RLE_WordSize + 1 > outSizeBytes

\* Variant: the value byte is written before the counter.
PacketBytes_ValueFirst(rleCount, rleByte) == <<rleByte, rleCount>>

\* rleWrite(output, rleCount); rleWrite(output, rleByte): counter, then value.
PacketBytes(rleCount, rleByte) == <<rleCount, rleByte>>

\* ++rleCount on an RLE_Word.
IncWord(w) == (w + 1) % (RLE_MaxCount + 1)

\* The byte a read finds at an offset: the buffer's byte, or, past the bytes
\* of the buffer, whatever the memory there holds.
ByteAt(mem, off, g) == IF off < Len(mem) THEN mem[off + 1] ELSE g

\* RLE_Byte rleByte = *input;
EncEntry ==
    /\ pc = "enc_entry"
    /\ IF BadArgs(enc.inNull, enc.outNull, enc.inSizeBytes, enc.outSizeBytes)
       THEN /\ enc' = [enc EXCEPT !.ret = -1]
            /\ pc' = "enc_ret"
       ELSE /\ \E g \in GarbageVals :
                 enc' = [enc EXCEPT !.bytesWritten = 0, !.rleCount = 0,
                                    !.rleByte = ByteAt(enc.input, 0, g),
                                    !.read = 1, !.i = 0]
            /\ pc' = "enc_loop"
    /\ UNCHANGED <<call, dec, api, fmt, tool, par, cmd, parser>>

\* One iteration of for (i = 0; i < inSizeBytes; ++i, ++rleCount).
EncLoop ==
    /\ pc = "enc_loop"
    /\ enc.i < enc.inSizeBytes
    /\ LET b == enc.input[enc.i + 1]
           rd == Max(enc.read, enc.i + 1)
       IN IF EndOfRun(b, enc.rleByte, enc.rleCount)
          THEN IF NoSpace(enc.bytesWritten, enc.outSizeBytes)
               THEN /\ enc' = [enc EXCEPT !.read = rd, !.ret = -1]
                    /\ pc' = "enc_ret"
               ELSE /\ enc' = [enc EXCEPT
                                 !.read = rd,
                                 !.out = @ \o PacketBytes(enc.rleCount, enc.rleByte),
                                 !.bytesWritten = @ + RLE_WordSize + 1,
                                 !.rleCount = IncWord(0),
                                 !.rleByte = b,
                                 !.i = @ + 1]
                    /\ pc' = "enc_loop"
          ELSE /\ enc' = [enc EXCEPT !.read = rd,
                                     !.rleCount = IncWord(@),
                                     !.i = @ + 1]
               /\ pc' = "enc_loop"
    /\ UNCHANGED <<call, dec, api, fmt, tool, par, cmd, parser>>

\* After the loop: "Residual count at the end", then return bytesWritten.
EncResidual ==
    /\ pc = "enc_loop"
    /\ enc.i >= enc.inSizeBytes
    /\ IF enc.rleCount /= 0
       THEN IF NoSpace(enc.bytesWritten, enc.outSizeBytes)
            THEN enc' = [enc EXCEPT !.ret = -1]
            ELSE \* the two rleWrite results are dropped: bytesWritten stays
                 enc' = [enc EXCEPT
                           !.out = @ \o PacketBytes(enc.rleCount, enc.rleByte),
                           !.ret = enc.bytesWritten]
       ELSE enc' = [enc EXCEPT !.ret = enc.bytesWritten]
    /\ pc' = "enc_ret"
    /\ UNCHANGED <<call, dec, api, fmt, tool, par, cmd, parser>>

-----------------------------------------------------------------------------
(* rleDecode                                                                *)

\* The round trip decode(encode(B), len(B)): the bytes the encoder wrote, the
\* size it reported, and an output region of len(B) bytes.
RoundTrip ==
    /\ pc = "enc_ret"
    /\ call = "encode"
    /\ enc.ret >= 0
    /\ dec' = DecStart([input |-> enc.out, inNull |-> FALSE, outNull |-> FALSE,
                        inSizeBytes |-> enc.ret, outSizeBytes |-> enc.inSizeBytes])
    /\ call' = "roundtrip"
    /\ pc' = "dec_entry"
    /\ UNCHANGED <<enc, api, fmt, tool, par, cmd, parser>>

DecEntry ==
    /\ pc = "dec_entry"
    /\ IF BadArgs(dec.inNull, dec.outNull, dec.inSizeBytes, dec.outSizeBytes)
       THEN /\ dec' = [dec EXCEPT !.ret = -1]
            /\ pc' = "dec_ret"
       ELSE /\ dec' = [dec EXCEPT !.bytesWritten = 0, !.i = 0]
            /\ pc' = "dec_loop"
    /\ UNCHANGED <<call, enc, api, fmt, tool, par, cmd, parser>>

\* for (int i = 0; i < inSizeBytes; ++i)
DecMore(i, inSizeBytes) == i < inSizeBytes

\* rleRead(input, rleCount); rleRead(input, rleByte);
DecRead ==
    /\ pc = "dec_loop"
    /\ DecMore(dec.i, dec.inSizeBytes)
    /\ \E gc \in GarbageVals, gb \in GarbageVals :
         dec' = [dec EXCEPT !.rleCount = ByteAt(dec.input, dec.read, gc),
                            !.rleByte = ByteAt(dec.input, dec.read + RLE_WordSize, gb),
                            !.read = @ + RLE_WordSize + 1]
    /\ pc' = "dec_rep"
    /\ UNCHANGED <<call, enc, api, fmt, tool, par, cmd, parser>>

\* The read runs off the memory of the input buffer and the process faults.
DecReadFault ==
    /\ pc = "dec_loop"
    /\ DecMore(dec.i, dec.inSizeBytes)
    /\ dec.read + RLE_WordSize + 1 > Len(dec.input)
    /\ pc' = "crashed"
    /\ UNCHANGED <<call, enc, dec, api, fmt, tool, par, cmd, parser>>

\* if (++bytesWritten == outSizeBytes && rleCount > 0) return -1: the number of
\* bytes of a packet of rleCount bytes after which the loop returns -1, or 0
\* if it runs to the end of the packet.
StopsAfter(rleCount, bytesWritten, outSizeBytes) ==
    IF bytesWritten < outSizeBytes /\ outSizeBytes - bytesWritten < rleCount
    THEN outSizeBytes - bytesWritten
    ELSE 0

\* while (rleCount--) { *output++ = rleByte; ... }
DecReplicate ==
    /\ pc = "dec_rep"
    /\ LET k == StopsAfter(dec.rleCount, dec.bytesWritten, dec.outSizeBytes)
       IN IF k > 0
          THEN /\ dec' = [dec EXCEPT !.out = @ \o Rep(dec.rleByte, k),
                                     !.bytesWritten = @ + k,
                                     !.rleCount = dec.rleCount - k,
                                     !.ret = -1]
               /\ pc' = "dec_ret"
          ELSE /\ dec' = [dec EXCEPT !.out = @ \o Rep(dec.rleByte, dec.rleCount),
                                     !.bytesWritten = @ + dec.rleCount,
                                     !.rleCount = RLE_MaxCount,
                                     !.i = @ + 1]
               /\ pc' = "dec_loop"
    /\ UNCHANGED <<call, enc, api, fmt, tool, par, cmd, parser>>

\* The packet is written past the end of the output region and the process
\* faults instead of going on.
DecWriteFault ==
    /\ pc = "dec_rep"
    /\ dec.rleCount > 0
    /\ dec.bytesWritten >= dec.outSizeBytes
    /\ pc' = "crashed"
    /\ UNCHANGED <<call, enc, dec, api, fmt, tool, par, cmd, parser>>

\* return bytesWritten;
DecReturn ==
    /\ pc = "dec_loop"
    /\ ~DecMore(dec.i, dec.inSizeBytes)
    /\ dec' = [dec EXCEPT !.ret = dec.bytesWritten]
    /\ pc' = "dec_ret"
    /\ UNCHANGED <<call, enc, api, fmt, tool, par, cmd, parser>>

-----------------------------------------------------------------------------

Next ==
    \/ EncEntry
    \/ EncLoop
    \/ EncResidual
    \/ RoundTrip
    \/ DecEntry
    \/ DecRead
    \/ DecReadFault
    \/ DecReplicate
    \/ DecWriteFault
    \/ DecReturn

Spec == Init /\ [][Next]_vars

-----------------------------------------------------------------------------
(* Reference definitions the properties are stated with.                    *)

\* The arguments of a call are usable: both buffers present, both sizes > 0.
ValidCall(c) ==
    /\ ~c.inNull /\ ~c.outNull
    /\ c.inSizeBytes > 0 /\ c.outSizeBytes > 0

\* Last index of the maximal run of B that starts at index s.
RunEnd(B, s) ==
    CHOOSE e \in s..Len(B) :
        /\ \A k \in s..e : B[k] = B[s]
        /\ e = Len(B) \/ B[e + 1] /= B[s]

\* The packets of one maximal run of value v and length L.
RunPackets(L, v) ==
    Flatten(Rep(<<RLE_MaxCount, v>>, L \div RLE_MaxCount))
        \o (IF L % RLE_MaxCount /= 0 THEN <<L % RLE_MaxCount, v>> ELSE <<>>)

\* The reference RLE stream of B[s..Len(B)].
RECURSIVE RefFrom(_, _)
RefFrom(B, s) ==
    IF s > Len(B) THEN <<>>
    ELSE LET e == RunEnd(B, s)
         IN RunPackets(e - s + 1, B[s]) \o RefFrom(B, e + 1)

RefStream(B) == RefFrom(B, 1)

\* The counts of the packets in a packet stream, in order.
Counts(S) == [k \in 1..(Len(S) \div (RLE_WordSize + 1)) |-> S[(RLE_WordSize + 1) * k - 1]]

RECURSIVE Sum(_)
Sum(cs) == IF cs = <<>> THEN 0 ELSE Head(cs) + Sum(Tail(cs))

\* The bytes a packet stream stands for.
RECURSIVE Expand(_)
Expand(S) ==
    IF Len(S) < RLE_WordSize + 1 THEN <<>>
    ELSE Rep(S[2], S[1]) \o Expand(SubSeq(S, RLE_WordSize + 2, Len(S)))

\* A stream of whole packets each of which stands for at least one byte.
WellFormed(S) ==
    /\ Len(S) % (RLE_WordSize + 1) = 0
    /\ \A k \in 1..Len(Counts(S)) : Counts(S)[k] >= 1

NoTwoAdjacentEqual(B) == \A k \in 1..(Len(B) - 1) : B[k] /= B[k + 1]

EncReturned == call = "encode" /\ pc = "enc_ret"

-----------------------------------------------------------------------------
(* C1. Round-trip law: for every non-empty buffer B, decoding the bytes     *)
(* rleEncode wrote for B, with the size it reported and an output capacity  *)
(* of len(B), succeeds and yields exactly B.                                *)
RoundTripLaw ==
    (call = "roundtrip" /\ pc \in {"dec_ret", "crashed"})
        => /\ pc = "dec_ret"
           /\ dec.ret = Len(enc.input)
           /\ dec.out = enc.input

(* C2. No silent truncation: on success the size rleEncode reports is the   *)
(* byte length of all the packets it wrote, the residual packet included.   *)
ReportedSizeIsComplete ==
    (EncReturned /\ enc.ret >= 0) => enc.ret = Len(enc.out)

(* C3. For a non-empty input and an output region that holds the whole      *)
(* stream, the bytes rleEncode writes are the reference RLE stream of the   *)
(* input: per maximal run of length L and value v, floor(L/maxCount)        *)
(* packets (maxCount, v), then (L mod maxCount, v) if that is nonzero,      *)
(* counter first; with the two concrete scenarios of the spec.              *)
EncodeWritesReferenceStream ==
    (EncReturned /\ ValidCall(enc)
       /\ Len(RefStream(enc.input)) <= enc.outSizeBytes)
        => /\ enc.out = RefStream(enc.input)
           /\ enc.input = <<65, 65, 65, 66>> => enc.out = <<3, 65, 1, 66>>
           /\ enc.input = <<0, 1, 2>> => enc.out = <<1, 0, 1, 1, 1, 2>>

EncodeWritesReferenceStream_Witness ==
    /\ EncReturned
    /\ enc.input = <<1>> \o Rep(0, 2 * RLE_MaxCount + 1) \o <<255>>
    /\ enc.out = <<1, 1, RLE_MaxCount, 0, RLE_MaxCount, 0, 1, 0, 1, 255>>

(* C4. rleDecode consumes exactly the compressed input: it processes        *)
(* inSizeBytes / (counterWidth + 1) packets and never reads an input byte   *)
(* at an offset >= inSizeBytes.                                             *)
DecodeConsumesExactlyInput ==
    (call \in {"decode", "roundtrip"} /\ ValidCall(dec))
        => /\ dec.read <= dec.inSizeBytes
           /\ dec.i <= dec.inSizeBytes \div (RLE_WordSize + 1)

(* C5. Every packet rleEncode emits has a count in 1..maxCount: no packet   *)
(* of length zero is written and the run counter never wraps around.        *)
PacketCountsInRange ==
    /\ \A k \in 1..Len(Counts(enc.out)) : Counts(enc.out)[k] \in 1..RLE_MaxCount
    /\ (pc = "enc_loop" /\ enc.i > 0) => enc.rleCount \in 1..RLE_MaxCount

PacketCountsInRange_Witness ==
    /\ EncReturned
    /\ Len(enc.input) = 2 * RLE_MaxCount + 2
    /\ Counts(enc.out) = <<RLE_MaxCount, RLE_MaxCount, 1, 1>>

(* C6. Max-run boundary: a run of exactly maxCount identical bytes gives    *)
(* exactly one packet; a run of maxCount + 1 identical bytes gives exactly  *)
(* two packets, the first with count maxCount and the second with count 1.  *)
MaxRunBoundary ==
    EncReturned =>
        \A v \in ByteVals :
            /\ (enc.input = Rep(v, RLE_MaxCount) /\ enc.outSizeBytes >= 2)
                   => enc.out = <<RLE_MaxCount, v>>
            /\ (enc.input = Rep(v, RLE_MaxCount + 1) /\ enc.outSizeBytes >= 4)
                   => enc.out = <<RLE_MaxCount, v, 1, v>>

MaxRunBoundary_Witness ==
    /\ EncReturned
    /\ enc.input = Rep(255, RLE_MaxCount + 1)
    /\ enc.out = <<RLE_MaxCount, 255, 1, 255>>

(* C7. rleEncode reports failure exactly when the complete packet stream of *)
(* the input needs more than outSizeBytes bytes; in particular N bytes with *)
(* no two adjacent ones equal do not fit in less than                       *)
(* N * (counterWidth + 1) bytes.                                            *)
EncodeFailsIffNoRoom ==
    (EncReturned /\ ValidCall(enc))
        => /\ enc.ret = -1 <=> Len(RefStream(enc.input)) > enc.outSizeBytes
           /\ (NoTwoAdjacentEqual(enc.input)
                 /\ enc.outSizeBytes < Len(enc.input) * (RLE_WordSize + 1))
                  => enc.ret = -1

EncodeFailsIffNoRoom_Witness ==
    /\ EncReturned
    /\ enc.input = <<0, 255, 0>>
    /\ enc.outSizeBytes = 4
    /\ enc.ret = -1

(* C8. If the packets of the compressed stream expand to more bytes than    *)
(* the output capacity, rleDecode returns -1, whether the capacity is       *)
(* reached inside a packet or exactly at the end of one.                    *)
DecodeOverflowFails ==
    (call = "decode" /\ pc \in {"dec_ret", "crashed"} /\ ValidCall(dec)
       /\ WellFormed(dec.input) /\ dec.inSizeBytes = Len(dec.input)
       /\ Sum(Counts(dec.input)) > dec.outSizeBytes)
        => (pc = "dec_ret" /\ dec.ret = -1)

(* C9. For a well-formed packet stream (c1,v1)...(ck,vk) whose counts sum   *)
(* to at most the output capacity, rleDecode writes v1 c1 times, then v2 c2 *)
(* times, and so on, and returns c1 + ... + ck.                             *)
DecodeExpandsPackets ==
    (call = "decode" /\ pc \in {"dec_ret", "crashed"} /\ ValidCall(dec)
       /\ WellFormed(dec.input) /\ dec.inSizeBytes = Len(dec.input)
       /\ Sum(Counts(dec.input)) <= dec.outSizeBytes)
        => /\ pc = "dec_ret"
           /\ dec.out = Expand(dec.input)
           /\ dec.ret = Sum(Counts(dec.input))

(* C10. With a null input or output buffer, or a declared size that is zero *)
(* or negative, rleEncode and rleDecode return -1 and neither read an input *)
(* byte nor write an output byte.                                           *)
BadArgsFailUntouched ==
    /\ (call = "encode" /\ ~ValidCall(enc))
          => /\ pc \in {"enc_entry", "enc_ret"}
             /\ enc.read = 0 /\ enc.out = <<>>
             /\ pc = "enc_ret" => enc.ret = -1
    /\ (call \in {"decode", "roundtrip"} /\ ~ValidCall(dec))
          => /\ pc \in {"dec_entry", "dec_ret"}
             /\ dec.read = 0 /\ dec.out = <<>>
             /\ pc = "dec_ret" => dec.ret = -1

BadArgsFailUntouched_Witness ==
    /\ call = "decode" /\ pc = "dec_ret"
    /\ ~dec.inNull /\ ~dec.outNull /\ dec.inSizeBytes > 0
    /\ dec.outSizeBytes = 0
    /\ dec.ret = -1

(* C11.  The empty buffer does not round-trip: rleEncode and rleDecode,     *)
(* called with both buffers present and a declared input size of 0, return  *)
(* -1 and neither read nor write a byte, so a failure is reported and there *)
(* is no encoded result to decode.                                          *)
EmptyBufferRejected ==
    /\ (call = "encode" /\ ~enc.inNull /\ ~enc.outNull /\ enc.inSizeBytes = 0)
          => /\ pc \in {"enc_entry", "enc_ret"}
             /\ enc.read = 0 /\ enc.out = <<>>
             /\ pc = "enc_ret" => enc.ret = -1
    /\ (call = "decode" /\ ~dec.inNull /\ ~dec.outNull /\ dec.inSizeBytes = 0)
          => /\ pc \in {"dec_entry", "dec_ret"}
             /\ dec.read = 0 /\ dec.out = <<>>
             /\ pc = "dec_ret" => dec.ret = -1

EmptyBufferRejected_Witness ==
    /\ EncReturned
    /\ ~enc.inNull /\ ~enc.outNull
    /\ enc.input = <<>> /\ enc.inSizeBytes = 0 /\ enc.outSizeBytes > 0
    /\ enc.ret = -1

\* C11 as the spec words it: the empty buffer encodes to an empty result and
\* the empty stream decodes to empty output, both without a failure.
EmptyBufferRoundTrips ==
    /\ (EncReturned /\ ~enc.inNull /\ ~enc.outNull
          /\ enc.input = <<>> /\ enc.inSizeBytes = 0 /\ enc.outSizeBytes > 0)
          => (enc.ret = 0 /\ enc.out = <<>>)
    /\ (call = "decode" /\ pc = "dec_ret" /\ ~dec.inNull /\ ~dec.outNull
          /\ dec.input = <<>> /\ dec.inSizeBytes = 0 /\ dec.outSizeBytes > 0)
          => (dec.ret = 0 /\ dec.out = <<>>)

-----------------------------------------------------------------------------
(* formatMemoryUnit (utils.cpp, and the older variant of font_tool.cpp).     *)
(* A string is the sequence of its characters.                              *)

Kilobyte == 1024

Megabyte == 1024 * Kilobyte

Gigabyte == 1024 * Megabyte

DigitChars == <<"0", "1", "2", "3", "4", "5", "6", "7", "8", "9">>

\* The decimal digits of a natural number ("%d" of the integral part).
RECURSIVE Digits(_)
Digits(n) ==
    IF n < 10 THEN <<DigitChars[n + 1]>>
    ELSE Digits(n \div 10) \o <<DigitChars[(n % 10) + 1]>>

\* sizeBytes / 1024.0 [/ 1024.0 [/ 1024.0]] printed with "%.2f", as a number
\* of hundredths: the quotient by the unit d is exact in a double, and the
\* conversion rounds it to the nearest hundredth, a tie to the even one.
\* (The fraction (n mod d) * 100 / d is taken in two steps to stay in range.)
Hundredths(n, d) ==
    LET s    == IF d > Megabyte THEN d \div Megabyte ELSE 1
        r    == n % d
        t    == (r \div s) * 100 + ((r % s) * 100) \div s
        low  == ((r % s) * 100) % s
        dd   == d \div s
        h    == t \div dd
        rest == t % dd
        up   == \/ 2 * rest > dd
                \/ 2 * rest = dd /\ low > 0
                \/ 2 * rest = dd /\ low = 0 /\ h % 2 = 1
    IN (n \div d) * 100 + h + (IF up THEN 1 ELSE 0)

\* std::snprintf(strBuf, sizeof(strBuf), "%.2f", adjustedSize)
Fixed2(h) ==
    Digits(h \div 100) \o <<".">>
        \o <<DigitChars[((h % 100) \div 10) + 1], DigitChars[(h % 10) + 1]>>

\* while (*--p == '0') *p = '\0';
RECURSIVE DropZeros(_)
DropZeros(str) ==
    IF str[Len(str)] = "0" THEN DropZeros(SubSeq(str, 1, Len(str) - 1)) ELSE str

\* "Remove trailing zeros if no significant decimal digits", then "If the dot
\* was left alone at the end, remove it too".
StripFraction(str) ==
    LET z == DropZeros(str)
    IN IF z[Len(z)] = "." THEN SubSeq(z, 1, Len(z) - 1) ELSE z

\* memUnitStr and the divisor of adjustedSize.
MemUnitOf(sizeBytes, abbreviated) ==
    IF sizeBytes < Kilobyte
    THEN [div |-> 1,
          str |-> IF abbreviated THEN <<"B">> ELSE <<"B", "y", "t", "e", "s">>]
    ELSE IF sizeBytes < Megabyte
    THEN [div |-> Kilobyte,
          str |-> IF abbreviated THEN <<"K", "B">>
                  ELSE <<"K", "i", "l", "o", "b", "y", "t", "e", "s">>]
    ELSE IF sizeBytes < Gigabyte
    THEN [div |-> Megabyte,
          str |-> IF abbreviated THEN <<"M", "B">>
                  ELSE <<"M", "e", "g", "a", "b", "y", "t", "e", "s">>]
    ELSE [div |-> Gigabyte,
          str |-> IF abbreviated THEN <<"G", "B">>
                  ELSE <<"G", "i", "g", "a", "b", "y", "t", "e", "s">>]

\* The characters formatMemoryUnit produces: "%s %s" of the number and the unit.
FormatMemoryUnit(sizeBytes, abbreviated) ==
    LET u == MemUnitOf(sizeBytes, abbreviated)
    IN StripFraction(Fixed2(Hundredths(sizeBytes, u.div))) \o <<" ">> \o u.str

-----------------------------------------------------------------------------
(* Compressor::getMemorySaved and Compressor::getCompressionRatio.          *)
(* std::size_t and long are kept at their width, as sequences of 16-bit     *)
(* limbs (least significant first): 2 limbs are 32 bits, 4 limbs 64 bits.   *)

LimbBase == 65536

\* The widths (in limbs) of std::size_t and of long a build may have:
\* LP64, LLP64 and ILP32.
Builds == {[sizeLimbs |-> 4, longLimbs |-> 4],
           [sizeLimbs |-> 4, longLimbs |-> 2],
           [sizeLimbs |-> 2, longLimbs |-> 2]}

\* A size below 2^31 as a std::size_t of k limbs.
ToLimbs(n, k) ==
    [j \in 1..k |-> IF j = 1 THEN n % LimbBase
                    ELSE IF j = 2 THEN n \div LimbBase ELSE 0]

\* The borrow out of limb j of a - b.
RECURSIVE Borrow(_, _, _)
Borrow(a, b, j) ==
    IF j = 0 THEN 0
    ELSE IF a[j] - b[j] - Borrow(a, b, j - 1) < 0 THEN 1 ELSE 0

\* a - b on unsigned words of Len(a) limbs: the difference modulo 2^(16 Len(a)).
UnsignedSub(a, b) ==
    [j \in 1..Len(a) |-> (a[j] - b[j] - Borrow(a, b, j - 1)) % LimbBase]

\* The value of an unsigned word that is below 2^31.
LimbsValue(w) == w[1] + w[2] * LimbBase

\* The conversion of an unsigned word to a long of k limbs: the low k limbs,
\* read as a two's complement number.
ToLong(w, k) ==
    LET low == SubSeq(w, 1, k)
    IN IF low[k] >= LimbBase \div 2
       THEN 0 - LimbsValue(UnsignedSub(ToLimbs(0, k), low))
       ELSE LimbsValue(low)

\* const long diff = uncompressed.size() - compressed.size();
SizeDiff(uncompressedSize, compressedSize, build) ==
    ToLong(UnsignedSub(ToLimbs(uncompressedSize, build.sizeLimbs),
                       ToLimbs(compressedSize, build.sizeLimbs)),
           build.longLimbs)

\* Variant: a negative difference is reported by its magnitude.
NonNegative_Magnitude(diff) == IF diff >= 0 THEN diff ELSE 0 - diff

\* diff >= 0 ? diff : 0
NonNegative(diff) == IF diff >= 0 THEN diff ELSE 0

\* Compressor::getMemorySaved: the size handed to formatMemoryUnit, and the
\* string that comes back.
GetMemorySaved(compressedSize, uncompressedSize, build) ==
    LET arg == NonNegative(SizeDiff(uncompressedSize, compressedSize, build))
    IN [sizeBytes |-> arg, str |-> FormatMemoryUnit(arg, TRUE)]

\* Compressor::getCompressionRatio: the quotient of the two sizes as doubles,
\* kept as the pair <<dividend, divisor>>; a division by 0.0 gives an
\* infinity, and 0.0 / 0.0 a NaN.
GetCompressionRatio(compressedSize, uncompressedSize) ==
    IF compressedSize > 0 THEN <<uncompressedSize, compressedSize>>
    ELSE IF uncompressedSize > 0 THEN "inf" ELSE "nan"

-----------------------------------------------------------------------------
(* The Compressor classes (compressor.cpp).                                 *)

\* enum class Encoding
EncodingNone == 0

EncodingRLE == 1

EncodingLZW == 2

EncodingHuffman == 3

Encodings == {EncodingNone, EncodingRLE, EncodingLZW, EncodingHuffman}

\* Values of the enumeration type that are none of its enumerators.
OtherEncodings == {-1, 4}

\* ByteBuffer(n): n value-initialized bytes.
Zeros(n) == Rep(0, n)

\* NoOpCompressor::compress: "Return the input unchanged."
\* Variant: the last byte of the buffer is lost.
NoOpCompress_DropsLast(uncompressed) ==
    SubSeq(uncompressed, 1, Len(uncompressed) - 1)

NoOpCompress(uncompressed) == uncompressed

\* The decompress of the identity codec (declared in compressor.hpp).
NoOpDecompress(compressed) == compressed

\* rle::easyEncode (extern/compression/rle.hpp), by section 4.1 of the spec:
\* the packet stream of the input and its size if it fits the capacity, a
\* failure (-1) if it does not or if a size is not positive.
RleEasyEncode(input, outSizeBytes) ==
    IF Len(input) <= 0 \/ outSizeBytes <= 0 THEN [ret |-> -1, out |-> <<>>]
    ELSE IF Len(RefStream(input)) > outSizeBytes THEN [ret |-> -1, out |-> <<>>]
    ELSE [ret |-> Len(RefStream(input)), out |-> RefStream(input)]

\* RLECompressor::compress
RleCompress(uncompressed) ==
    LET cap == Len(uncompressed) * 2
        r   == RleEasyEncode(uncompressed, cap)
        compressed == r.out \o Zeros(cap - Len(r.out))
    IN IF r.ret <= 0 THEN <<>>
       ELSE IF r.ret <= Len(uncompressed) THEN SubSeq(compressed, 1, r.ret)
       ELSE compressed

\* What lzw::easyEncode and huffman::easyEncode hand back: a bit stream of
\* compressedSizeBytes bytes, of which compressedSizeBits bits are used.
LibBytes == {0, 255}

LibResults ==
    {[data |-> d, compressedSizeBytes |-> Len(d), compressedSizeBits |-> b] :
        <<d, b>> \in UNION {{<<s, x>> : x \in {8 * Len(s), Max(0, 8 * Len(s) - 3)}} :
                            s \in SeqsUpTo(LibBytes, MaxLib)}}

\* The four bytes of a std::uint32_t in memory, in the byte order of the build.
U32Bytes(n, order) ==
    LET le == [k \in 1..4 |-> IF k = 1 THEN n % 256
                              ELSE IF k = 2 THEN (n \div 256) % 256
                              ELSE IF k = 3 THEN (n \div 65536) % 256
                              ELSE (n \div 16777216) % 256]
    IN IF order = "little" THEN le ELSE [k \in 1..4 |-> le[5 - k]]

\* Variant: the bit stream is returned without the two sizes in front of it.
PackStream_NoHeader(r, order) == r.data

\* LZWCompressor::compress and HuffmanCompressor::compress after easyEncode:
\* *bitsPtr++ = compressedSizeBytes; *bitsPtr++ = compressedSizeBits; memcpy.
PackStream(r, order) ==
    U32Bytes(r.compressedSizeBytes, order)
        \o U32Bytes(r.compressedSizeBits, order) \o r.data

\* Variant: an unknown encoding is given the identity codec.
CodecClass_DefaultNoOp(encoding) ==
    IF encoding = EncodingRLE THEN "RLECompressor"
    ELSE IF encoding = EncodingLZW THEN "LZWCompressor"
    ELSE IF encoding = EncodingHuffman THEN "HuffmanCompressor"
    ELSE "NoOpCompressor"

\* Compressor::create: the class the switch makes, "null" if it makes none.
CodecClass(encoding) ==
    IF encoding = EncodingNone THEN "NoOpCompressor"
    ELSE IF encoding = EncodingRLE THEN "RLECompressor"
    ELSE IF encoding = EncodingLZW THEN "LZWCompressor"
    ELSE IF encoding = EncodingHuffman THEN "HuffmanCompressor"
    ELSE "null"

ApiInputs == ShortInputs \cup ExampleInputs

StatSizes ==
    {0, 1, 2, Kilobyte - 1, Kilobyte, Kilobyte + 514, Megabyte,
     Gigabyte + Gigabyte \div 2, 2 * (Gigabyte - 1) + 1}

\* A call of Compressor::create followed by compress (and decompress), or a
\* call of the two statistics helpers on buffers of the given sizes.
ApiCalls ==
    {[pc |-> "create", encoding |-> e, input |-> B, order |-> o, codec |-> "null",
      lib |-> <<>>, result |-> <<>>, restored |-> <<>>, error |-> ""] :
        e \in Encodings \cup OtherEncodings, B \in ApiInputs,
        o \in {"little", "big"}}
    \cup
    {[pc |-> "stats", compressedSize |-> c, uncompressedSize |-> u, build |-> b,
      saved |-> [sizeBytes |-> 0, str |-> <<>>], ratio |-> "none"] :
        c \in StatSizes, u \in StatSizes, b \in Builds}

\* std::unique_ptr<Compressor> Compressor::create(const Encoding encoding)
ApiCreate ==
    /\ api.pc = "create"
    /\ IF CodecClass(api.encoding) /= "null"
       THEN api' = [api EXCEPT !.codec = CodecClass(api.encoding), !.pc = "compress"]
       ELSE api' = [api EXCEPT !.error = "Invalid compressor encoding enum!",
                               !.pc = "thrown"]
    /\ UNCHANGED <<pc, call, enc, dec, fmt, tool, par, cmd, parser>>

\* compressor->compress(B)
ApiCompress ==
    /\ api.pc = "compress"
    /\ \/ /\ api.codec = "NoOpCompressor"
          /\ api' = [api EXCEPT !.result = NoOpCompress(api.input), !.pc = "compressed"]
       \/ /\ api.codec = "RLECompressor"
          /\ api' = [api EXCEPT !.result = RleCompress(api.input), !.pc = "compressed"]
       \/ /\ api.codec \in {"LZWCompressor", "HuffmanCompressor"}
          /\ \E r \in LibResults :
               api' = [api EXCEPT !.lib = r, !.result = PackStream(r, api.order),
                                  !.pc = "compressed"]
    /\ UNCHANGED <<pc, call, enc, dec, fmt, tool, par, cmd, parser>>

\* compressor->decompress(compressed), for the identity codec.
ApiDecompress ==
    /\ api.pc = "compressed"
    /\ api.codec = "NoOpCompressor"
    /\ api' = [api EXCEPT !.restored = NoOpDecompress(api.result), !.pc = "done"]
    /\ UNCHANGED <<pc, call, enc, dec, fmt, tool, par, cmd, parser>>

\* Compressor::getMemorySaved(compressed, uncompressed) and
\* Compressor::getCompressionRatio(compressed, uncompressed)
ApiStats ==
    /\ api.pc = "stats"
    /\ api' = [api EXCEPT
                 !.saved = GetMemorySaved(api.compressedSize, api.uncompressedSize,
                                          api.build),
                 !.ratio = GetCompressionRatio(api.compressedSize,
                                               api.uncompressedSize),
                 !.pc = "stats_done"]
    /\ UNCHANGED <<pc, call, enc, dec, fmt, tool, par, cmd, parser>>

-----------------------------------------------------------------------------
(* Calls of formatMemoryUnit, one after the other, by a caller that keeps   *)
(* what each call returned.                                                 *)
(*   variant "string": utils.cpp, the result is a std::string of its own    *)
(*   variant "static": font_tool.cpp, the result points into one of the     *)
(*                     static buffers localStrBuf[bufNum]                   *)
(*   objs         the std::string objects returned so far                   *)
(*   held         per call, where its result is (index into objs, or the    *)
(*                number of the static buffer) and the string it returned   *)

\* static char localStrBuf[8][MEM_UNIT_STR_MAXLEN];
NumStrBufs == 8

FmtSizes == {1, Kilobyte + 512, Megabyte}

FmtStart(v) ==
    [pc |-> "fmt", variant |-> v, bufNum |-> 0,
     localStrBuf |-> [b \in 0..(NumStrBufs - 1) |-> <<>>],
     objs |-> <<>>, held |-> <<>>]

\* Variant: the index wraps after four buffers.
NextBuf_Four(bufNum) == (bufNum + 1) % 4

\* bufNum = (bufNum + 1) & 7;
NextBuf(bufNum) == (bufNum + 1) % NumStrBufs

\* std::string formatMemoryUnit(sizeBytes, abbreviated): return fmtBuf;
FmtCallString ==
    /\ fmt.pc = "fmt"
    /\ fmt.variant = "string"
    /\ Len(fmt.held) < MaxFmtCalls
    /\ \E n \in FmtSizes :
         LET str == FormatMemoryUnit(n, TRUE)
         IN fmt' = [fmt EXCEPT !.objs = Append(@, str),
                               !.held = Append(@, [ref |-> Len(fmt.objs) + 1,
                                                   str |-> str])]
    /\ UNCHANGED <<pc, call, enc, dec, api, tool, par, cmd, parser>>

\* static const char * formatMemoryUnit(sizeBytes, abbreviated):
\* fmtBuf = localStrBuf[bufNum]; bufNum = (bufNum + 1) & 7; ... return fmtBuf;
FmtCallStatic ==
    /\ fmt.pc = "fmt"
    /\ fmt.variant = "static"
    /\ Len(fmt.held) < MaxFmtCalls
    /\ \E n \in FmtSizes :
         LET str == FormatMemoryUnit(n, TRUE)
         IN fmt' = [fmt EXCEPT !.localStrBuf[fmt.bufNum] = str,
                               !.bufNum = NextBuf(@),
                               !.held = Append(@, [ref |-> fmt.bufNum, str |-> str])]
    /\ UNCHANGED <<pc, call, enc, dec, api, tool, par, cmd, parser>>

-----------------------------------------------------------------------------

InitApi ==
    /\ CodecIdle
    /\ tool = Idle /\ par = Idle /\ cmd = Idle /\ parser = Idle
    /\ \/ api \in ApiCalls /\ fmt = Idle
       \/ api = Idle /\ fmt \in {FmtStart("string"), FmtStart("static")}

NextApi ==
    \/ ApiCreate
    \/ ApiCompress
    \/ ApiDecompress
    \/ ApiStats
    \/ FmtCallString
    \/ FmtCallStatic

SpecApi == InitApi /\ [][NextApi]_vars

-----------------------------------------------------------------------------
(* Properties of the Compressor classes and of the statistics (SpecApi).    *)

ApiCompressed == api.pc \in {"compressed", "done"}

(* C12.  Identity codec: the codec Compressor::create gives for             *)
(* Encoding::None returns a buffer equal to B from compress, and a buffer   *)
(* equal to B from decompress of that result.                               *)
NoOpCodecIsIdentity ==
    (ApiCompressed /\ api.encoding = EncodingNone)
        => /\ api.codec = "NoOpCompressor"
           /\ api.result = api.input
           /\ api.pc = "done" => api.restored = api.input

NoOpCodecIsIdentity_Witness ==
    /\ api.pc = "done"
    /\ api.encoding = EncodingNone
    /\ api.input = <<65, 65, 65, 66>>
    /\ api.result = <<65, 65, 65, 66>>
    /\ api.restored = <<65, 65, 65, 66>>

(* C13.  Compressor::create returns a codec (never null) for each of None,  *)
(* RLE, LZW and Huffman; for any other identifier it raises the error       *)
(* "Invalid compressor encoding enum!" and returns no codec.                *)
CreateTotalOnEncodings ==
    (api.pc \in {"create", "compress", "compressed", "done", "thrown"})
        => /\ api.encoding \in Encodings
                => /\ api.pc /= "thrown"
                   /\ api.pc /= "create" => api.codec /= "null"
                   /\ api.error = ""
           /\ api.encoding \notin Encodings
                => /\ api.pc \in {"create", "thrown"}
                   /\ api.codec = "null"
                   /\ api.pc = "thrown" => api.error = "Invalid compressor encoding enum!"

CreateTotalOnEncodings_Witness ==
    /\ api.pc = "thrown"
    /\ api.encoding = 4
    /\ api.codec = "null"

\* The value of four bytes of memory read as a std::uint32_t.
U32Value(b, order) ==
    IF order = "little"
    THEN b[1] + 256 * b[2] + 65536 * b[3] + 16777216 * b[4]
    ELSE b[4] + 256 * b[3] + 65536 * b[2] + 16777216 * b[1]

(* C14.  The LZW and Huffman codecs are not identity transforms: compress   *)
(* returns 8 bytes holding the size of the encoder's bit stream in bytes    *)
(* and in bits (two 32-bit words), followed by the bytes of that stream, so *)
(* the result has 8 + compressedSizeBytes bytes and is never the input      *)
(* buffer when that is shorter than 8 bytes.                                *)
LzwHuffmanPrependSizes ==
    (ApiCompressed /\ api.encoding \in {EncodingLZW, EncodingHuffman})
        => /\ Len(api.result) = 8 + api.lib.compressedSizeBytes
           /\ U32Value(SubSeq(api.result, 1, 4), api.order) = api.lib.compressedSizeBytes
           /\ U32Value(SubSeq(api.result, 5, 8), api.order) = api.lib.compressedSizeBits
           /\ SubSeq(api.result, 9, Len(api.result)) = api.lib.data
           /\ Len(api.input) < 8 => api.result /= api.input

LzwHuffmanPrependSizes_Witness ==
    /\ api.pc = "compressed"
    /\ api.encoding = EncodingLZW
    /\ api.order = "little"
    /\ api.input = <<0, 1, 255>>
    /\ api.result = <<2, 0, 0, 0, 16, 0, 0, 0, 255, 0>>

\* C14 as the spec words it: the two codecs return a buffer equal to the input
\* (a compression ratio of exactly 1.0).
LzwHuffmanAreIdentity ==
    (ApiCompressed /\ api.encoding \in {EncodingLZW, EncodingHuffman})
        => (api.result = api.input /\ Len(api.result) = Len(api.input))

(* C15.  getMemorySaved formats max(0, len(uncompressed) - len(compressed)): *)
(* when the compressed buffer is the longer one the unsigned difference does *)
(* not come through as a huge value, "0 B" is reported.                      *)
MemorySavedIsClamped ==
    api.pc = "stats_done"
        => LET d == api.uncompressedSize - api.compressedSize
           IN /\ api.saved.sizeBytes = Max(0, d)
              /\ api.saved.str = FormatMemoryUnit(Max(0, d), TRUE)
              /\ d <= 0 => api.saved.str = <<"0", " ", "B">>
              /\ d = Kilobyte + 512 => api.saved.str = <<"1", ".", "5", " ", "K", "B">>

MemorySavedIsClamped_Witness ==
    /\ api.pc = "stats_done"
    /\ api.uncompressedSize = 2
    /\ api.compressedSize = Kilobyte + 514
    /\ api.build = [sizeLimbs |-> 4, longLimbs |-> 4]
    /\ api.saved = [sizeBytes |-> 0, str |-> <<"0", " ", "B">>]

\* What is now at the place the k-th call of formatMemoryUnit returned.
FmtContents(k) ==
    IF fmt.variant = "static" THEN fmt.localStrBuf[fmt.held[k].ref]
    ELSE fmt.objs[fmt.held[k].ref]

(* C19.  A string returned by the std::string variant of formatMemoryUnit   *)
(* is never altered by later calls; a string returned by the static-buffer  *)
(* variant stays as returned through the next 7 calls, and from the 8th     *)
(* later call on its place holds the result of a later call.                *)
FormattedStringKeptForSevenCalls ==
    fmt.pc = "fmt"
        => \A k \in 1..Len(fmt.held) :
             LET later == Len(fmt.held) - k
             IN /\ (fmt.variant = "string" \/ later < NumStrBufs)
                     => FmtContents(k) = fmt.held[k].str
                /\ (fmt.variant = "static" /\ later >= NumStrBufs)
                     => FmtContents(k) =
                          fmt.held[k + NumStrBufs * (later \div NumStrBufs)].str

FormattedStringKeptForSevenCalls_Witness ==
    /\ fmt.pc = "fmt"
    /\ fmt.variant = "static"
    /\ Len(fmt.held) = NumStrBufs + 1
    /\ fmt.held[1].str = <<"1", " ", "B">>
    /\ fmt.localStrBuf[0] = <<"1", " ", "M", "B">>

\* C19 as the spec words it: in both variants a returned string is never
\* altered by later calls.
FormattedStringNeverAltered ==
    fmt.pc = "fmt"
        => \A k \in 1..Len(fmt.held) : FmtContents(k) = fmt.held[k].str

-----------------------------------------------------------------------------
(* One run of the tool: main, runFontTool, compressFontBitmapData and the   *)
(* DataWriter (font_tool.cpp 24-125, variant "new"), and the older          *)
(* runFontTool with the built-in RLE encoder (font_tool.cpp 756-840,        *)
(* variant "legacy"), which runs rleEncode step by step.                    *)
(*   args         "none": only the program name; "help": -h; "run"          *)
(*   fail         the input that is bad, if one is: "fnt" (parseCmdLine or  *)
(*                the FNT parser raises), "load" (the image cannot be       *)
(*                loaded), "open" (the output file cannot be opened)        *)
(*   bitmap       the pixels of the image file                              *)
(*   bitmapData   the buffer runFontTool hands to the writer                 *)
(*   stats        the compression statistics printed, in order              *)
(*   file         the output file: untouched, open (created, empty) or      *)
(*                written (the bitmap array and bitmapDecompressSize)       *)

\* Pixel buffers of a loaded image: never empty (loadFontBitmap raises an
\* error for an image without pixels).
ToolBitmaps ==
    (ShortInputs \ {<<>>}) \cup ExampleInputs
        \cup {Rep(0, RLE_MaxCount + 1), <<1>> \o Rep(255, 2 * RLE_MaxCount + 1)}

\* ProgramOptions after parseCmdLine: "if (!compressBitmap) encoding = None";
\* the older tool has RLE only.
ToolOptions(variant) ==
    {[compressBitmap |-> c, verbose |-> v, encoding |-> e] :
        <<c, v, e>> \in
            {<<FALSE, v, EncodingNone>> : v \in BOOLEAN}
            \cup {<<TRUE, v, e>> :
                    v \in BOOLEAN,
                    e \in IF variant = "new"
                          THEN {EncodingRLE, EncodingLZW, EncodingHuffman}
                          ELSE {EncodingRLE}}}

ToolStart(variant, args, fail, opts, bitmap) ==
    [variant |-> variant, pc |-> "main", args |-> args, fail |-> fail,
     opts |-> opts, bitmap |-> bitmap, bitmapData |-> <<>>,
     uncompressedSize |-> 0, compressed |-> <<>>, encodedSize |-> 0,
     decompressSize |-> 0, stats |-> <<>>,
     file |-> [state |-> "untouched"], error |-> "", exit |-> "running"]

ToolRuns ==
    {ToolStart(r[1], r[2], r[3], r[4], r[5]) :
        r \in UNION {{<<v, a, f, o, b>> :
                        a \in {"none", "help", "run"},
                        f \in {"none", "fnt", "load", "open"},
                        o \in ToolOptions(v), b \in ToolBitmaps} :
                     v \in {"new", "legacy"}}}

\* Variant: the error is reported, but the run goes on to the writer.
Raise_Ignored(t, message) == [t EXCEPT !.error = message, !.pc = "open"]

\* error(message): throw FontToolError{ message }, caught in main.
Raise(t, message) == [t EXCEPT !.error = message, !.pc = "thrown"]

\* main: "Just the prog name? Not enough.", the help run, or runFontTool.
ToolMain ==
    /\ tool.pc = "main"
    /\ tool' = IF tool.args = "none"
               THEN [tool EXCEPT !.exit = "EXIT_FAILURE", !.pc = "exited"]
               ELSE IF tool.args = "help"
               THEN [tool EXCEPT !.exit = "EXIT_SUCCESS", !.pc = "exited"]
               ELSE [tool EXCEPT !.pc = "parse"]
    /\ UNCHANGED <<pc, call, enc, dec, api, fmt, par, cmd, parser>>

\* parseCmdLine and parseTextFntFile: both raise an error on bad input.
ToolParse ==
    /\ tool.pc = "parse"
    /\ tool' = IF tool.fail = "fnt"
               THEN Raise(tool, "Unable to open FNT file for reading!")
               ELSE [tool EXCEPT !.pc = "load"]
    /\ UNCHANGED <<pc, call, enc, dec, api, fmt, par, cmd, parser>>

\* loadFontBitmap, then const int uncompressedSize = bitmapData.size()
\* (inputSize in the older tool).
ToolLoad ==
    /\ tool.pc = "load"
    /\ tool' = IF tool.fail = "load"
               THEN Raise(tool, "Unable to load image: Bad channels/dimensions.")
               ELSE [tool EXCEPT !.bitmapData = tool.bitmap,
                                 !.uncompressedSize = Len(tool.bitmap),
                                 !.pc = IF tool.opts.compressBitmap
                                        THEN "compress" ELSE "charset"]
    /\ UNCHANGED <<pc, call, enc, dec, api, fmt, par, cmd, parser>>

\* compressor->compress(bitmapData) of the codec Compressor::create gives: the
\* buffer returned, and the size the encoder reported (for RLE the value of
\* rle::easyEncode, for the others the length of the buffer).
Compressions(encoding, uncompressed) ==
    IF CodecClass(encoding) = "NoOpCompressor"
    THEN {[data |-> NoOpCompress(uncompressed), encodedSize |-> Len(uncompressed)]}
    ELSE IF CodecClass(encoding) = "RLECompressor"
    THEN {[data |-> RleCompress(uncompressed),
           encodedSize |-> RleEasyEncode(uncompressed, Len(uncompressed) * 2).ret]}
    ELSE {[data |-> PackStream(r, o), encodedSize |-> Len(PackStream(r, o))] :
            r \in LibResults, o \in {"little", "big"}}

\* Variant: a compressed bitmap of the same size is refused as well.
Refusal_AlsoEqual(compressed, bitmapData) ==
    IF compressed = <<>> THEN "Failed to compress the glyph bitmap!"
    ELSE IF Len(compressed) >= Len(bitmapData)
    THEN "Compression would produce a bigger bitmap! Cowardly refusing to compress it..."
    ELSE ""

\* Variant: a bigger compressed bitmap is accepted.
Refusal_OnlyEmpty(compressed, bitmapData) ==
    IF compressed = <<>> THEN "Failed to compress the glyph bitmap!" ELSE ""

\* compressFontBitmapData: the error raised for the compressed bitmap, "" if
\* it is accepted.
Refusal(compressed, bitmapData) ==
    IF compressed = <<>> THEN "Failed to compress the glyph bitmap!"
    ELSE IF Len(compressed) > Len(bitmapData)
    THEN "Compression would produce a bigger bitmap! Cowardly refusing to compress it..."
    ELSE ""

\* "Print compression stats": the sizes, the space saved and the ratio.
StatsOf(compressedSize, originalSize, build) ==
    [original |-> originalSize, compressedSize |-> compressedSize,
     saved |-> GetMemorySaved(compressedSize, originalSize, build).str,
     ratio |-> GetCompressionRatio(compressedSize, originalSize)]

\* compressFontBitmapData (new tool)
ToolCompress ==
    /\ tool.pc = "compress"
    /\ tool.variant = "new"
    /\ \E c \in Compressions(tool.opts.encoding, tool.bitmapData), b \in Builds :
         tool' = IF Refusal(c.data, tool.bitmapData) /= ""
                 THEN Raise([tool EXCEPT !.compressed = c.data,
                                         !.encodedSize = c.encodedSize],
                            Refusal(c.data, tool.bitmapData))
                 ELSE [tool EXCEPT
                         !.compressed = c.data,
                         !.encodedSize = c.encodedSize,
                         !.stats = IF tool.opts.verbose
                                   THEN Append(@, StatsOf(Len(c.data),
                                                          Len(tool.bitmapData), b))
                                   ELSE @,
                         !.bitmapData = c.data,
                         !.pc = "charset"]
    /\ UNCHANGED <<pc, call, enc, dec, api, fmt, par, cmd, parser>>

\* outputBitmap.resize(outputSize);
\* encodedSize = rleEncode(outputBitmap.data(), outputSize, inputBitmap.data(), inputSize);
ToolLegacyEncode ==
    /\ tool.pc = "compress"
    /\ tool.variant = "legacy"
    /\ enc' = EncStart([input |-> tool.bitmapData, inNull |-> FALSE, outNull |-> FALSE,
                        inSizeBytes |-> tool.uncompressedSize,
                        outSizeBytes |-> tool.uncompressedSize])
    /\ pc' = "enc_entry"
    /\ call' = "tool"
    /\ tool' = [tool EXCEPT !.pc = "encoding"]
    /\ UNCHANGED <<dec, api, fmt, par, cmd, parser>>

\* Variant: only a negative size is refused.
LegacyRefused_Negative(encodedSize) == encodedSize < 0

\* if (encodedSize <= 0) error(...)
LegacyRefused(encodedSize) == encodedSize <= 0

\* The older tool after rleEncode returned: the refusal, or the statistics;
\* the writer is given the first encodedSize bytes of outputBitmap.
ToolLegacyEncoded ==
    /\ tool.pc = "encoding"
    /\ pc = "enc_ret"
    /\ LET outputBitmap == enc.out \o Zeros(tool.uncompressedSize - Len(enc.out))
       IN tool' =
            IF LegacyRefused(enc.ret)
            THEN Raise([tool EXCEPT !.encodedSize = enc.ret, !.compressed = outputBitmap],
                       "RLE compression would produce a bigger bitmap! Cowardly refusing to RLE compress...")
            ELSE [tool EXCEPT
                    !.encodedSize = enc.ret,
                    !.compressed = outputBitmap,
                    !.stats = IF tool.opts.verbose
                              THEN Append(@, [original |-> tool.uncompressedSize,
                                              compressedSize |-> enc.ret,
                                              saved |-> FormatMemoryUnit(
                                                  tool.uncompressedSize - enc.ret, TRUE),
                                              ratio |-> GetCompressionRatio(
                                                  enc.ret, tool.uncompressedSize)])
                              ELSE @,
                    !.bitmapData = SubSeq(outputBitmap, 1, enc.ret),
                    !.pc = "charset"]
    /\ UNCHANGED <<pc, call, enc, dec, api, fmt, par, cmd, parser>>

\* Variant: the size before compression is stored whether or not the bitmap
\* was compressed.
DecompressSize_Always(compressBitmap, uncompressedSize) == uncompressedSize

\* charSet.bitmapDecompressSize = (opts.compressBitmap ? uncompressedSize : 0);
DecompressSize(compressBitmap, uncompressedSize) ==
    IF compressBitmap THEN uncompressedSize ELSE 0

ToolCharSet ==
    /\ tool.pc = "charset"
    /\ tool' = [tool EXCEPT
                  !.decompressSize = DecompressSize(tool.opts.compressBitmap,
                                                    tool.uncompressedSize),
                  !.pc = "open"]
    /\ UNCHANGED <<pc, call, enc, dec, api, fmt, par, cmd, parser>>

\* DataWriter dataWriter{ opts }: fopen(outputFileName, "wt"), an error if
\* that gives no file.
ToolOpen ==
    /\ tool.pc = "open"
    /\ tool' = IF tool.fail = "open"
               THEN Raise(tool, "Unable to open file for writing!")
               ELSE [tool EXCEPT !.file = [state |-> "open"], !.pc = "write"]
    /\ UNCHANGED <<pc, call, enc, dec, api, fmt, par, cmd, parser>>

\* dataWriter.write(bitmapData, charSet): writeBitmapArray, writeCharSet; then
\* runFontTool returns and main returns EXIT_SUCCESS.
ToolWrite ==
    /\ tool.pc = "write"
    /\ tool' = [tool EXCEPT
                  !.file = [state |-> "written", bytes |-> tool.bitmapData,
                            decompressSize |-> tool.decompressSize],
                  !.exit = "EXIT_SUCCESS",
                  !.pc = "exited"]
    /\ UNCHANGED <<pc, call, enc, dec, api, fmt, par, cmd, parser>>

\* catch (std::exception & e) { ... return EXIT_FAILURE; }
ToolCatch ==
    /\ tool.pc = "thrown"
    /\ tool' = [tool EXCEPT !.exit = "EXIT_FAILURE", !.pc = "exited"]
    /\ UNCHANGED <<pc, call, enc, dec, api, fmt, par, cmd, parser>>

InitTool ==
    /\ CodecIdle
    /\ api = Idle /\ fmt = Idle /\ par = Idle /\ cmd = Idle /\ parser = Idle
    /\ tool \in ToolRuns

NextTool ==
    \/ ToolMain
    \/ ToolParse
    \/ ToolLoad
    \/ ToolCompress
    \/ ToolLegacyEncode
    \/ EncEntry
    \/ EncLoop
    \/ EncResidual
    \/ ToolLegacyEncoded
    \/ ToolCharSet
    \/ ToolOpen
    \/ ToolWrite
    \/ ToolCatch

SpecTool == InitTool /\ [][NextTool]_vars

-----------------------------------------------------------------------------
(* Properties of a run of the tool (SpecTool).                              *)

\* The run has gone through the compression step.
CompressionTried ==
    /\ tool.pc \in {"charset", "open", "write", "thrown", "exited"}
    /\ tool.args = "run" /\ tool.fail \notin {"fnt", "load"}
    /\ tool.opts.compressBitmap

\* The compression gave nothing, or more bytes than the bitmap has.
CompressionUnusable ==
    IF tool.variant = "new"
    THEN tool.compressed = <<>> \/ Len(tool.compressed) > Len(tool.bitmap)
    ELSE tool.encodedSize <= 0

(* C16.  In the tool the compression ratio is only computed for a           *)
(* compressed length greater than 0: a compression that gave nothing raises *)
(* its error before the statistics, so the division is never by zero.       *)
RatioOnlyOfNonEmpty ==
    tool.pc /= "idle"
        => /\ \A k \in 1..Len(tool.stats) :
                /\ tool.stats[k].compressedSize > 0
                /\ tool.stats[k].ratio = <<Len(tool.bitmap), tool.stats[k].compressedSize>>
           /\ (CompressionTried /\ CompressionUnusable) => tool.stats = <<>>

RatioOnlyOfNonEmpty_Witness ==
    /\ tool.pc = "exited"
    /\ tool.variant = "legacy"
    /\ tool.opts.compressBitmap /\ tool.opts.verbose
    /\ tool.bitmap = <<255, 255, 255>>
    /\ tool.encodedSize = 0
    /\ tool.stats = <<>>
    /\ tool.exit = "EXIT_FAILURE"

(* C17.  When the compression fails or would make the bitmap bigger, the    *)
(* tool does not fall back to the uncompressed bitmap: it raises an error,  *)
(* writes no output file and exits with EXIT_FAILURE.                       *)
RefusesWithoutOutput ==
    (CompressionTried /\ CompressionUnusable)
        => /\ tool.pc \in {"thrown", "exited"}
           /\ tool.file = [state |-> "untouched"]
           /\ tool.error \in
                {"Failed to compress the glyph bitmap!",
                 "Compression would produce a bigger bitmap! Cowardly refusing to compress it...",
                 "RLE compression would produce a bigger bitmap! Cowardly refusing to RLE compress..."}
           /\ tool.pc = "exited" => tool.exit = "EXIT_FAILURE"

RefusesWithoutOutput_Witness ==
    /\ tool.pc = "exited"
    /\ tool.variant = "new"
    /\ tool.opts.encoding = EncodingRLE
    /\ tool.bitmap = <<0, 1, 2>>
    /\ tool.compressed = <<1, 0, 1, 1, 1, 2>>
    /\ tool.file = [state |-> "untouched"]
    /\ tool.exit = "EXIT_FAILURE"

\* C17 as the spec words it: the tool falls back to the uncompressed bitmap
\* and still writes the output file.
FallsBackToUncompressed ==
    (tool.pc = "exited" /\ tool.fail = "none"
       /\ CompressionTried /\ CompressionUnusable)
        => /\ tool.file.state = "written"
           /\ tool.file.bytes = tool.bitmap
           /\ tool.exit = "EXIT_SUCCESS"

(* C18.  The bitmapDecompressSize that is written is the byte size of the   *)
(* bitmap before compression when compression was requested and 0           *)
(* otherwise; it is nonzero exactly when the bitmap bytes written are the   *)
(* compressed ones.                                                         *)
DecompressSizeMarksCompressed ==
    (tool.pc = "exited" /\ tool.file.state = "written")
        => /\ tool.file.decompressSize =
                (IF tool.opts.compressBitmap THEN Len(tool.bitmap) ELSE 0)
           /\ tool.file.decompressSize /= 0 <=> tool.opts.compressBitmap
           /\ tool.opts.compressBitmap
                => /\ tool.variant = "new" => tool.file.bytes = tool.compressed
                   /\ tool.variant = "legacy"
                        => tool.file.bytes = SubSeq(tool.compressed, 1, tool.encodedSize)
                   /\ tool.opts.encoding = EncodingRLE
                        => tool.file.bytes =
                             SubSeq(RefStream(tool.bitmap), 1, Len(tool.file.bytes))
           /\ ~tool.opts.compressBitmap => tool.file.bytes = tool.bitmap

DecompressSizeMarksCompressed_Witness ==
    /\ tool.pc = "exited"
    /\ tool.variant = "new"
    /\ tool.opts.encoding = EncodingRLE
    /\ tool.bitmap = Rep(0, RLE_MaxCount + 1)
    /\ tool.file = [state |-> "written", bytes |-> <<RLE_MaxCount, 0, 1, 0>>,
                    decompressSize |-> RLE_MaxCount + 1]

-----------------------------------------------------------------------------
(* Two invocations of the codec on buffers of their own, first each alone,  *)
(* then with their steps interleaved.  The invocation that runs has its     *)
(* locals and buffers in pc, call, enc, dec; those of the suspended one are *)
(* kept in par.other.  The bytes outside a buffer are part of the           *)
(* invocation's surroundings (par.procs[k].garbage, and faults: whether an  *)
(* access outside the buffers ends the process), the same alone and         *)
(* interleaved.                                                             *)
(*   phase        "solo": invocation par.turn runs alone; "inter"           *)
(*   solo         the outcome of each invocation run alone                  *)
(*   cur          the invocation that runs                                  *)
(*   preempted    an invocation was suspended in the middle of its loop     *)

ParEncodeCalls ==
    {[input |-> c[1], inNull |-> FALSE, outNull |-> FALSE,
      inSizeBytes |-> Len(c[1]), outSizeBytes |-> c[2]] :
        c \in {<<<<0, 0, 1>>, 4>>, <<<<0, 1, 255>>, 4>>, <<<<65, 65, 65, 66>>, 8>>}}

ParDecodeCalls ==
    {[input |-> c[1], inNull |-> FALSE, outNull |-> FALSE,
      inSizeBytes |-> Len(c[1]), outSizeBytes |-> c[2]] :
        c \in {<<<<2, 0, 1, 255>>, 3>>, <<<<2, 0>>, 1>>, <<<<1, 0, 1, 255>>, 1>>}}

ParProcs ==
    {[kind |-> "encode", args |-> c, garbage |-> 0, faults |-> FALSE] :
        c \in ParEncodeCalls}
    \cup {[kind |-> "decode", args |-> c, garbage |-> g, faults |-> f] :
            c \in ParDecodeCalls, g \in GarbageVals, f \in BOOLEAN}

\* The locals and buffers of an invocation at its entry.
StartCtx(p) ==
    IF p.kind = "encode"
    THEN [pc |-> "enc_entry", call |-> "par",
          enc |-> EncStart(p.args), dec |-> DecStart(NoCall)]
    ELSE [pc |-> "dec_entry", call |-> "par",
          enc |-> EncStart(NoCall), dec |-> DecStart(p.args)]

RunningCtx == [pc |-> pc, call |-> call, enc |-> enc, dec |-> dec]

Returned(p) == p \in {"enc_ret", "dec_ret", "crashed"}

\* What an invocation leaves behind: how it ended, the value returned and the
\* bytes written through its output pointer.
Outcome(ctx) ==
    IF ctx.pc = "enc_ret" THEN <<"returned", ctx.enc.ret, ctx.enc.out>>
    ELSE IF ctx.pc = "dec_ret" THEN <<"returned", ctx.dec.ret, ctx.dec.out>>
    ELSE <<"crashed", 0, <<>>>>

\* Variant: rleCount is a static variable, one for all invocations.
Resume_StaticCount(saved, running) ==
    [saved EXCEPT !.enc.rleCount = running.enc.rleCount,
                  !.dec.rleCount = running.dec.rleCount]

\* The locals of rleEncode and rleDecode (bytesWritten, rleCount, rleByte, i)
\* and their input/output pointers are automatic variables: an invocation
\* that goes on finds them as it left them.
Resume(saved, running) == saved

Load(ctx) ==
    /\ pc' = ctx.pc
    /\ call' = ctx.call
    /\ enc' = ctx.enc
    /\ dec' = ctx.dec

\* The first invocation has returned; the second one runs alone.
ParSoloNext ==
    /\ par.phase = "solo"
    /\ par.turn = 1
    /\ Returned(pc)
    /\ par' = [par EXCEPT !.solo[1] = Outcome(RunningCtx), !.turn = 2]
    /\ Load(StartCtx(par.procs[2]))
    /\ UNCHANGED <<api, fmt, tool, cmd, parser>>

\* Both have run alone; the two invocations are started again, together.
ParStartInterleaved ==
    /\ par.phase = "solo"
    /\ par.turn = 2
    /\ Returned(pc)
    /\ par' = [par EXCEPT !.solo[2] = Outcome(RunningCtx), !.phase = "inter",
                          !.cur = 1, !.other = StartCtx(par.procs[2])]
    /\ Load(StartCtx(par.procs[1]))
    /\ UNCHANGED <<api, fmt, tool, cmd, parser>>

\* The scheduler suspends the invocation that runs and lets the other one,
\* which has not returned yet, go on.
ParSwitch ==
    /\ par.phase = "inter"
    /\ ~Returned(par.other.pc)
    /\ par' = [par EXCEPT !.cur = 3 - @, !.other = RunningCtx,
                          !.preempted = @ \/ pc \in {"enc_loop", "dec_loop", "dec_rep"}]
    /\ Load(Resume(par.other, RunningCtx))
    /\ UNCHANGED <<api, fmt, tool, cmd, parser>>

\* The surroundings of the invocation that runs.
ParEnv == par.procs[IF par.phase = "solo" THEN par.turn ELSE par.cur]

ReadsOutside == dec.read + RLE_WordSize + 1 > Len(dec.input)

\* rleRead where the bytes outside the input buffer are those of ParEnv.
ParDecRead ==
    /\ DecRead
    /\ ~(ReadsOutside /\ ParEnv.faults)
    /\ dec'.rleCount = ByteAt(dec.input, dec.read, ParEnv.garbage)
    /\ dec'.rleByte = ByteAt(dec.input, dec.read + RLE_WordSize, ParEnv.garbage)

ParDecReadFault == DecReadFault /\ ParEnv.faults

\* The packet at hand is written past the end of the output region.
WritesOutside == dec.rleCount > 0 /\ dec.bytesWritten >= dec.outSizeBytes

ParDecReplicate ==
    /\ DecReplicate
    /\ ~(WritesOutside /\ ParEnv.faults)

ParDecWriteFault == DecWriteFault /\ ParEnv.faults

InitPar ==
    /\ api = Idle /\ fmt = Idle /\ tool = Idle /\ cmd = Idle /\ parser = Idle
    /\ \E p1 \in ParProcs, p2 \in ParProcs :
         /\ par = [phase |-> "solo", turn |-> 1, procs |-> <<p1, p2>>,
                   solo |-> <<<<>>, <<>>>>, cur |-> 1, other |-> StartCtx(p2),
                   preempted |-> FALSE]
         /\ pc = StartCtx(p1).pc
         /\ call = StartCtx(p1).call
         /\ enc = StartCtx(p1).enc
         /\ dec = StartCtx(p1).dec

NextPar ==
    \/ EncEntry
    \/ EncLoop
    \/ EncResidual
    \/ DecEntry
    \/ ParDecRead
    \/ ParDecReadFault
    \/ ParDecReplicate
    \/ ParDecWriteFault
    \/ DecReturn
    \/ ParSoloNext
    \/ ParStartInterleaved
    \/ ParSwitch

SpecPar == InitPar /\ [][NextPar]_vars

-----------------------------------------------------------------------------
(* Bounds of the writes of the codec (Spec).                                *)

(* C22.  rleEncode never writes an output byte at an offset >= outSizeBytes, *)
(* whatever the input and the declared output size, also in the runs that    *)
(* end with -1.                                                              *)
EncodeWritesInBounds ==
    call = "encode" => Len(enc.out) <= Max(enc.outSizeBytes, 0)

EncodeWritesInBounds_Witness ==
    /\ EncReturned
    /\ enc.input = <<0, 1, 255>>
    /\ enc.outSizeBytes = 3
    /\ enc.out = <<1, 0>>
    /\ enc.ret = -1

(* C23.  rleDecode never writes an output byte at an offset >= outSizeBytes, *)
(* for any compressed stream and any declared output capacity, and no write *)
(* ends the process.                                                         *)
DecodeWritesInBounds ==
    call = "decode"
        => /\ Len(dec.out) <= Max(dec.outSizeBytes, 0)
           /\ pc = "crashed" => ~(dec.rleCount > 0 /\ dec.bytesWritten >= dec.outSizeBytes)

(* C25.  With the 8-bit run counter the packet stream of a non-empty input  *)
(* of n bytes has at most 2n bytes, so rleEncode into an output region of   *)
(* 2n bytes (the buffer RLECompressor::compress allocates) never fails for  *)
(* lack of room.                                                            *)
DoubledBufferSuffices ==
    (EncReturned /\ ValidCall(enc) /\ enc.inSizeBytes = Len(enc.input)
       /\ enc.outSizeBytes >= 2 * Len(enc.input))
        => /\ Len(RefStream(enc.input)) <= 2 * Len(enc.input)
           /\ enc.ret >= 0
           /\ enc.out = RefStream(enc.input)

DoubledBufferSuffices_Witness ==
    /\ EncReturned
    /\ enc.input = <<0, 1, 255>>
    /\ enc.outSizeBytes = 6
    /\ enc.out = <<1, 0, 1, 1, 1, 255>>
    /\ enc.ret >= 0

-----------------------------------------------------------------------------
(* Further properties of a run of the tool (SpecTool).                      *)

RefusalMessages ==
    {"Failed to compress the glyph bitmap!",
     "Compression would produce a bigger bitmap! Cowardly refusing to compress it..."}

OutputOpenedAfterAllSucceeded ==
    tool.pc /= "idle"
        => /\ tool.file.state /= "untouched"
                => /\ tool.pc \in {"write", "exited"}
                   /\ tool.args = "run"
                   /\ tool.fail = "none"
                   /\ tool.error = ""
                   /\ tool.uncompressedSize = Len(tool.bitmap)
                   /\ tool.opts.compressBitmap
                        => (CompressionTried /\ ~CompressionUnusable)
           /\ tool.error /= ""
                => /\ tool.file.state = "untouched"
                   /\ tool.pc \in {"thrown", "exited"}
                   /\ tool.pc = "exited" => tool.exit = "EXIT_FAILURE"
           /\ (tool.pc = "exited" /\ tool.args = "run" /\ tool.fail /= "none")
                => tool.error /= ""

OutputOpenedAfterAllSucceeded_Witness ==
    /\ tool.pc = "exited"
    /\ tool.variant = "new"
    /\ tool.fail = "load"
    /\ tool.error = "Unable to load image: Bad channels/dimensions."
    /\ tool.file.state = "untouched"
    /\ tool.exit = "EXIT_FAILURE"


-----------------------------------------------------------------------------
(* Command line handling: parseCmdLine of utils.cpp and parseCommandLine of *)
(* the older tool.  A string is a sequence of one-character strings; argv   *)
(* is a sequence whose element k + 1 is argv[k].                            *)

MaxArgc == 5

EncodingBufSize == 128

\* The string literals of the parser.
Str ==
    [v |-> <<"-", "v">>,
     verbose |-> <<"-", "-", "v", "e", "r", "b", "o", "s", "e">>,
     c |-> <<"-", "c">>,
     compress |-> <<"-", "-", "c", "o", "m", "p", "r", "e", "s", "s">>,
     s |-> <<"-", "s">>,
     static |-> <<"-", "-", "s", "t", "a", "t", "i", "c">>,
     m |-> <<"-", "m">>,
     mutable |-> <<"-", "-", "m", "u", "t", "a", "b", "l", "e">>,
     S |-> <<"-", "S">>,
     structs |-> <<"-", "-", "s", "t", "r", "u", "c", "t", "s">>,
     T |-> <<"-", "T">>,
     stdtypes |-> <<"-", "-", "s", "t", "d", "t", "y", "p", "e", "s">>,
     H |-> <<"-", "H">>,
     hex |-> <<"-", "-", "h", "e", "x">>,
     x |-> <<"-", "x">>,
     rgba |-> <<"-", "-", "r", "g", "b", "a">>,
     align |-> <<"-", "-", "a", "l", "i", "g", "n">>,
     alignEq |-> <<"-", "-", "a", "l", "i", "g", "n", "=">>,
     encoding |-> <<"-", "-", "e", "n", "c", "o", "d", "i", "n", "g">>,
     encodingEq |-> <<"-", "-", "e", "n", "c", "o", "d", "i", "n", "g", "=">>,
     rle |-> <<"r", "l", "e">>,
     lzw |-> <<"l", "z", "w">>,
     huff |-> <<"h", "u", "f", "f">>,
     dotH |-> <<".", "h">>]

AlnumChars == {"a", "b", "c", "d", "e", "f", "g", "h", "i", "j", "k", "l", "m", "n", "o", "p", "q", "r", "s", "t", "u", "v", "w", "x", "y", "z", "A", "B", "C", "D", "E", "F", "G", "H", "I", "J", "K", "L", "M", "N", "O", "P", "Q", "R", "S", "T", "U", "V", "W", "X", "Y", "Z", "0", "1", "2", "3", "4", "5", "6", "7", "8", "9"}

isCmdFlag(arg) == Len(arg) > 0 /\ arg[1] = "-"

hasCmdFlag(test, shortForm, longForm) == test = shortForm \/ test = longForm

strStartsWith(str, prefix) ==
    IF Len(str) < Len(prefix) THEN FALSE
    ELSE IF Len(str) = 0 \/ Len(prefix) = 0 THEN FALSE
    ELSE SubSeq(str, 1, Len(prefix)) = prefix

\* filename.substr(0, filename.find_last_of('.')), or the name itself.
removeFilenameExtension(filename) ==
    LET dots == {k \in 1..Len(filename) : filename[k] = "."}
    IN  IF dots = {} THEN filename
        ELSE SubSeq(filename, 1,
                    (CHOOSE k \in dots : \A d \in dots : d <= k) - 1)

\* std::replace_if(..., !std::isalnum(c) && c != '_', '_')
ReplaceFunky(name) ==
    [k \in 1..Len(name) |->
        IF name[k] \in AlnumChars \/ name[k] = "_" THEN name[k] ELSE "_"]

\* What sscanf leaves after matching the literal text of its format, or
\* "mismatch" when the argument does not start with it.
ScanLiteral(str, literal) ==
    IF Len(str) >= Len(literal) /\ SubSeq(str, 1, Len(literal)) = literal
    THEN [matched |-> TRUE, rest |-> SubSeq(str, Len(literal) + 1, Len(str))]
    ELSE [matched |-> FALSE, rest |-> <<>>]

RECURSIVE SkipSpaces(_)
SkipSpaces(str) ==
    IF str # <<>> /\ str[1] = " " THEN SkipSpaces(Tail(str)) ELSE str

\* %s: the longest run of non-space characters.
ScanWord(str) ==
    LET s == SkipSpaces(str)
        stops == {k \in 1..Len(s) : s[k] = " "}
    IN  IF stops = {} THEN s
        ELSE SubSeq(s, 1, (CHOOSE k \in stops : \A j \in stops : k <= j) - 1)

\* The digits of std::strtol and sscanf, in either case.
HexDigits ==
    <<{"0"}, {"1"}, {"2"}, {"3"}, {"4"}, {"5"}, {"6"}, {"7"}, {"8"}, {"9"},
      {"a", "A"}, {"b", "B"}, {"c", "C"}, {"d", "D"}, {"e", "E"}, {"f", "F"}>>

\* The value of c as a digit of the base, or -1.
DigitIn(c, base) ==
    LET ks == {k \in 1..base : c \in HexDigits[k]}
    IN  IF ks = {} THEN -1 ELSE (CHOOSE k \in ks : TRUE) - 1

RECURSIVE StrtolDigits(_, _, _, _)
StrtolDigits(str, base, acc, used) ==
    IF str = <<>> \/ DigitIn(str[1], base) < 0
    THEN [value |-> acc, used |-> used]
    ELSE StrtolDigits(Tail(str), base, acc * base + DigitIn(str[1], base),
                      used + 1)

\* %d: optional sign, then at least one digit.
ScanInt(str) ==
    LET s == SkipSpaces(str)
        signed == s # <<>> /\ s[1] \in {"-", "+"}
        d == StrtolDigits(IF signed THEN Tail(s) ELSE s, 10, 0, 0)
    IN  IF d.used = 0
        THEN [count |-> 0, value |-> 0]
        ELSE [count |-> 1,
              value |-> IF signed /\ s[1] = "-" THEN 0 - d.value ELSE d.value]

\* ProgramOptions{}: the member initializers.  The older options have no
\* mutableData, stdTypes, hexadecimalStr, encoding or cmdLine, and call the
\* face name fontName.
DefaultOptions(variant) ==
    IF variant = "new"
    THEN [cmdLine |-> <<>>, fntFileName |-> <<>>, bitmapFileName |-> <<>>,
          outputFileName |-> <<>>, fontFaceName |-> <<>>,
          verbose |-> FALSE, compressBitmap |-> FALSE, rgbaBitmap |-> FALSE,
          staticStorage |-> FALSE, mutableData |-> FALSE,
          outputStructs |-> FALSE, stdTypes |-> FALSE,
          hexadecimalStr |-> FALSE, alignmentAmount |-> 0,
          encoding |-> EncodingRLE]
    ELSE [fntFileName |-> <<>>, bitmapFileName |-> <<>>,
          outputFileName |-> <<>>, fontName |-> <<>>,
          verbose |-> FALSE, compressBitmap |-> FALSE, rgbaBitmap |-> FALSE,
          staticStorage |-> FALSE, outputStructs |-> FALSE,
          alignmentAmount |-> 0]

\* The calls of the parser: main makes them with argc >= 2 only.  The
\* last argument of the pool names a method that does not fit
\* char encoding[128] with its terminator.
CmdRuns ==
    {[pc |-> "entry", variant |-> v, argc |-> Len(l) + 2,
      argv |-> <<<<"f", "o", "n", "t", "-", "t", "o", "o", "l">>, f>> \o l,
      i |-> 0, opts |-> DefaultOptions(v), error |-> <<>>] :
        v \in {"new", "legacy"},
        f \in {<<"a", ".", "f">>, <<>>, Str.c},
        l \in SeqsUpTo(
            {<<"o">>, Str.c, Str.compress, Str.v, <<"-", "z">>,
             Str.encodingEq \o Str.rle, Str.encodingEq \o Str.lzw,
             Str.encodingEq \o <<"z", "i", "p">>, Str.encodingEq,
             Str.alignEq \o <<"4">>,
             Str.encodingEq \o [k \in 1..EncodingBufSize |-> "a"]},
            MaxArgc - 2)}

\* argv[k]
Argv(c, k) == c.argv[k + 1]

\* for (int i = 1; i < argc; ++i) { cmdLine += " "; cmdLine += argv[i]; }
RECURSIVE JoinArgs(_, _)
JoinArgs(c, k) ==
    IF k >= c.argc THEN <<>> ELSE <<" ">> \o Argv(c, k) \o JoinArgs(c, k + 1)

idxBitmapFile(c) == IF c.argc >= 3 /\ ~isCmdFlag(Argv(c, 2)) THEN 2 ELSE -1

idxOutputFile(c) == IF c.argc >= 4 /\ ~isCmdFlag(Argv(c, 3)) THEN 3 ELSE -1

idxFontName(c) == IF c.argc >= 5 /\ ~isCmdFlag(Argv(c, 4)) THEN 4 ELSE -1

\* const int start = std::max({ 2, idxBitmapFile, idxOutputFile, idxFontName })
FlagsStart(c) ==
    Max(Max(2, idxBitmapFile(c)), Max(idxOutputFile(c), idxFontName(c)))

CmdError(c, message, detail) ==
    [c EXCEPT !.pc = "error", !.error = <<message, detail>>]

\* The part of the parser before the flag loop.
CmdEntry ==
    /\ cmd.pc = "entry"
    /\ LET fnt == Argv(cmd, 1)
           face == IF idxFontName(cmd) >= 0
                   THEN Argv(cmd, idxFontName(cmd))
                   ELSE ReplaceFunky(removeFilenameExtension(fnt))
           first == IF cmd.variant = "new"
                    THEN [cmd.opts EXCEPT !.cmdLine = JoinArgs(cmd, 1),
                                          !.fntFileName = fnt]
                    ELSE [cmd.opts EXCEPT !.fntFileName = fnt]
           files == [first EXCEPT
                !.bitmapFileName =
                    IF idxBitmapFile(cmd) >= 0
                    THEN Argv(cmd, idxBitmapFile(cmd)) ELSE @,
                !.outputFileName =
                    IF idxOutputFile(cmd) >= 0
                    THEN Argv(cmd, idxOutputFile(cmd))
                    ELSE removeFilenameExtension(fnt) \o Str.dotH]
           named == IF cmd.variant = "new"
                    THEN [files EXCEPT !.fontFaceName = face]
                    ELSE [files EXCEPT !.fontName = face]
       IN  cmd' = IF fnt = <<>> \/ fnt[1] = "-"
                  THEN CmdError([cmd EXCEPT !.opts = first],
                                "Invalid filename", fnt)
                  ELSE [cmd EXCEPT !.opts = named, !.i = FlagsStart(cmd),
                                   !.pc = "flags"]
    /\ UNCHANGED <<pc, call, enc, dec, api, fmt, tool, par, parser>>

\* The --align=N branch.
AlignFlag(c, arg) ==
    LET lit == ScanLiteral(arg, Str.alignEq)
        n == ScanInt(lit.rest)
    IN  IF lit.matched /\ n.count = 1
        THEN {[c EXCEPT !.opts.alignmentAmount = n.value, !.i = @ + 1]}
        ELSE {CmdError(c, "Bad '--align' flag! Expected a number after '=', e.g.: '--align=16'", <<>>)}

\* The --encoding=method branch.  sscanf stores the word and its terminator
\* in char encoding[128] with no field width: a longer word is written past
\* the end of the array, after which the behaviour is undefined.
EncodingFlag(c, arg) ==
    LET lit == ScanLiteral(arg, Str.encodingEq)
        encoding == ScanWord(lit.rest)
        compared ==
            IF encoding = Str.rle
            THEN [c EXCEPT !.opts.encoding = EncodingRLE, !.i = @ + 1]
            ELSE IF encoding = Str.lzw
            THEN [c EXCEPT !.opts.encoding = EncodingLZW, !.i = @ + 1]
            ELSE IF encoding = Str.huff
            THEN [c EXCEPT !.opts.encoding = EncodingHuffman, !.i = @ + 1]
            ELSE CmdError(c, "Unknown encoding method", encoding)
    IN  IF ~lit.matched \/ encoding = <<>>
        THEN {CmdError(c, "Bad '--encoding' flag! Expected rle, lzw or huff after '='.", <<>>)}
        ELSE IF Len(encoding) + 1 > EncodingBufSize
        THEN {compared, [c EXCEPT !.pc = "crashed"]}
        ELSE {compared}

\* One pass of the if/else-if chain over argv[i]; an argument that no
\* branch matches is skipped.
ApplyFlag(c, arg) ==
    IF hasCmdFlag(arg, Str.v, Str.verbose)
    THEN {[c EXCEPT !.opts.verbose = TRUE, !.i = @ + 1]}
    ELSE IF hasCmdFlag(arg, Str.c, Str.compress)
    THEN {[c EXCEPT !.opts.compressBitmap = TRUE, !.i = @ + 1]}
    ELSE IF hasCmdFlag(arg, Str.s, Str.static)
    THEN {[c EXCEPT !.opts.staticStorage = TRUE, !.i = @ + 1]}
    ELSE IF c.variant = "new" /\ hasCmdFlag(arg, Str.m, Str.mutable)
    THEN {[c EXCEPT !.opts.mutableData = TRUE, !.i = @ + 1]}
    ELSE IF hasCmdFlag(arg, Str.S, Str.structs)
    THEN {[c EXCEPT !.opts.outputStructs = TRUE, !.i = @ + 1]}
    ELSE IF c.variant = "new" /\ hasCmdFlag(arg, Str.T, Str.stdtypes)
    THEN {[c EXCEPT !.opts.stdTypes = TRUE, !.i = @ + 1]}
    ELSE IF c.variant = "new" /\ hasCmdFlag(arg, Str.H, Str.hex)
    THEN {[c EXCEPT !.opts.hexadecimalStr = TRUE, !.i = @ + 1]}
    ELSE IF hasCmdFlag(arg, Str.x, Str.rgba)
    THEN {[c EXCEPT !.opts.rgbaBitmap = TRUE, !.i = @ + 1]}
    ELSE IF strStartsWith(arg, Str.align)
    THEN AlignFlag(c, arg)
    ELSE IF c.variant = "new" /\ strStartsWith(arg, Str.encoding)
    THEN EncodingFlag(c, arg)
    ELSE {[c EXCEPT !.i = @ + 1]}

\* for (int i = start; i < argc; ++i): one iteration.
CmdFlag ==
    /\ cmd.pc = "flags"
    /\ cmd.i < cmd.argc
    /\ cmd' \in IF ~isCmdFlag(Argv(cmd, cmd.i))
                THEN {[cmd EXCEPT !.i = @ + 1]}
                ELSE ApplyFlag(cmd, Argv(cmd, cmd.i))
    /\ UNCHANGED <<pc, call, enc, dec, api, fmt, tool, par, parser>>

\* After the loop: if (!optsOut.compressBitmap) encoding = Encoding::None;
\* the verbose listing that follows changes nothing.
CmdReturn ==
    /\ cmd.pc = "flags"
    /\ cmd.i >= cmd.argc
    /\ cmd' = IF cmd.variant = "new" /\ ~cmd.opts.compressBitmap
              THEN [cmd EXCEPT !.opts.encoding = EncodingNone, !.pc = "done"]
              ELSE [cmd EXCEPT !.pc = "done"]
    /\ UNCHANGED <<pc, call, enc, dec, api, fmt, tool, par, parser>>

InitCmd ==
    /\ CodecIdle
    /\ api = Idle /\ fmt = Idle /\ tool = Idle /\ par = Idle /\ parser = Idle
    /\ cmd \in CmdRuns

NextCmd ==
    \/ CmdEntry
    \/ CmdFlag
    \/ CmdReturn

SpecCmd == InitCmd /\ [][NextCmd]_vars

-----------------------------------------------------------------------------
(* Claims about the command line.                                           *)

\* The flags the loop has gone through when the parser returns.
AppliedFlags(c) ==
    {k \in FlagsStart(c)..(c.argc - 1) : isCmdFlag(Argv(c, k))}

MethodName(arg) == ScanWord(ScanLiteral(arg, Str.encodingEq).rest)

NamesMethod(arg) ==
    /\ strStartsWith(arg, Str.encoding)
    /\ ScanLiteral(arg, Str.encodingEq).matched
    /\ MethodName(arg) # <<>>

MethodEncoding(name) ==
    IF name = Str.rle THEN EncodingRLE
    ELSE IF name = Str.lzw THEN EncodingLZW
    ELSE EncodingHuffman

EncodingAsked(c) ==
    LET compress == {k \in AppliedFlags(c) :
                        hasCmdFlag(Argv(c, k), Str.c, Str.compress)}
        methods == {k \in AppliedFlags(c) : NamesMethod(Argv(c, k))}
        last == CHOOSE k \in methods : \A j \in methods : j <= k
    IN  IF compress = {} THEN EncodingNone
        ELSE IF methods = {} THEN EncodingRLE
        ELSE MethodEncoding(MethodName(Argv(c, last)))

EncodingIsOfLastFlag ==
    (cmd.pc = "done" /\ cmd.variant = "new")
        => cmd.opts.encoding = EncodingAsked(cmd)

UnknownMethodRaises ==
    (cmd.pc \notin {"idle", "entry"} /\ cmd.variant = "new")
        => \A k \in FlagsStart(cmd)..(cmd.argc - 1) :
              ( /\ NamesMethod(Argv(cmd, k))
                /\ MethodName(Argv(cmd, k)) \notin {Str.rle, Str.lzw, Str.huff}
                /\ \/ cmd.i > k
                   \/ cmd.i = k /\ cmd.pc # "flags" )
                 => /\ cmd.pc = "error"
                    /\ cmd.error = <<"Unknown encoding method",
                                     MethodName(Argv(cmd, k))>>

\* C21: after parseCmdLine the encoding is None exactly when no -c/--compress
\* flag was applied; with -c applied it is the method of the last applied
\* --encoding=rle|lzw|huff flag, or RLE when there is none; and a flag that
\* names any other method ends the parser with the error "Unknown encoding
\* method".
EncodingFollowsFlags == EncodingIsOfLastFlag /\ UnknownMethodRaises

\* C30: when the parser returns, every -c/--compress and every -v/--verbose
\* argument at argv index 2 or later has set its option, wherever it stands
\* among the optional file names.
EveryFlagApplied ==
    cmd.pc = "done"
        => \A k \in 2..(cmd.argc - 1) :
              /\ hasCmdFlag(Argv(cmd, k), Str.c, Str.compress)
                    => cmd.opts.compressBitmap
              /\ hasCmdFlag(Argv(cmd, k), Str.v, Str.verbose)
                    => cmd.opts.verbose

-----------------------------------------------------------------------------
(* FNT file parsing: parseTextFntFile and handleFntToken of fnt.cpp, with   *)
(* the parser state in a TextFntParser, and of the older tool, with the     *)
(* parser state in static variables of handleFntToken.  A file is the       *)
(* sequence of the tokens of its one line.                                  *)

MaxTokens == 3

MaxChars == 256

UShortRange == 65536

\* The string literals of handleFntToken.
Tok ==
    [char |-> <<"c", "h", "a", "r">>,
     page |-> <<"p", "a", "g", "e">>,
     base |-> <<"b", "a", "s", "e", "=">>,
     file |-> <<"f", "i", "l", "e", "=">>,
     id |-> <<"i", "d", "=">>,
     x |-> <<"x", "=">>,
     y |-> <<"y", "=">>,
     height |-> <<"h", "e", "i", "g", "h", "t", "=">>,
     xadvance |-> <<"x", "a", "d", "v", "a", "n", "c", "e", "=">>]

\* std::strtol(token, &endPtr, 0): the value and endPtr - token.
Strtol(token) ==
    LET signed == token # <<>> /\ token[1] \in {"-", "+"}
        body == IF signed THEN Tail(token) ELSE token
        hex == /\ Len(body) >= 3 /\ body[1] = "0" /\ body[2] \in {"x", "X"}
               /\ DigitIn(body[3], 16) >= 0
        octal == ~hex /\ body # <<>> /\ body[1] = "0"
        d == IF hex THEN StrtolDigits(SubSeq(body, 3, Len(body)), 16, 0, 2)
             ELSE IF octal THEN StrtolDigits(body, 8, 0, 0)
             ELSE StrtolDigits(body, 10, 0, 0)
        number == d.used > (IF hex THEN 2 ELSE 0)
    IN  IF ~number THEN [value |-> 0, used |-> 0]
        ELSE [value |-> IF signed /\ token[1] = "-" THEN 0 - d.value
                        ELSE d.value,
              used |-> d.used + (IF signed THEN 1 ELSE 0)]

\* scanInt: the number, or the parse error when endPtr == token.
scanInt(token) ==
    IF Strtol(token).used = 0
    THEN [ok |-> FALSE, value |-> 0]
    ELSE [ok |-> TRUE, value |-> Strtol(token).value]

\* token + n
Skip(token, n) == SubSeq(token, n + 1, Len(token))

NullChar == [set |-> 0, index |-> -1]

\* TextFntParser{}: the member initializers; the older tool has the same
\* members, less lineNum, as statics of handleFntToken.
TextFntParser(variant) ==
    IF variant = "new"
    THEN [currentChar |-> NullChar, prevTokenWasChar |-> FALSE,
          largestHeight |-> 0, largestWidth |-> 0, lineNum |-> 0]
    ELSE [currentChar |-> NullChar, prevTokenWasChar |-> FALSE,
          largestHeight |-> 0, largestWidth |-> 0]

\* FontCharSet charSet{} (std::memset to 0 in the older tool).  chars holds
\* the glyphs written so far; every other glyph is zero.
FontCharSet ==
    [charBaseHeight |-> 0, charWidth |-> 0, charHeight |-> 0,
     charCount |-> 0, chars |-> <<>>]

CharAt(charSet, n) ==
    IF n \in DOMAIN charSet.chars THEN charSet.chars[n]
    ELSE [x |-> 0, y |-> 0]

\* A file that cannot be opened; strtok gives no empty token, so that no
\* file that can be read looks like it.
NoFile == <<<<>>>>

FntFiles ==
    SeqsUpTo(
        {Tok.char, Tok.page, Tok.id \o <<"1">>, Tok.id \o <<"2", "5", "6">>,
         Tok.x \o <<"2">>, Tok.y \o <<"0", "x", "3">>,
         Tok.height \o <<"4">>, Tok.xadvance \o <<"5">>,
         Tok.file \o <<"\"", "b", "\"">>},
        MaxTokens) \cup {NoFile}

FntStart(variant, ndebug, wantsName, files) ==
    [pc |-> "open", variant |-> variant, ndebug |-> ndebug,
     wantsName |-> wantsName, files |-> files, k |-> 1, pos |-> 1,
     lineRead |-> FALSE, st |-> TextFntParser(variant),
     sets |-> <<FontCharSet>>, fntBitmapFile |-> <<>>, wild |-> FALSE,
     error |-> <<>>]

\* The calls of parseTextFntFile in a process: one file, after none or one
\* of two files parsed earlier; with or without NDEBUG; fntBitmapFile null
\* or not.
FntRuns ==
    {FntStart(v, n, w, e \o <<f>>) :
        v \in {"new", "legacy"}, n \in BOOLEAN, w \in BOOLEAN,
        e \in {<<>>,
               <<<<Tok.char, Tok.id \o <<"1">>, Tok.height \o <<"4">>>>>>,
               <<<<Tok.xadvance \o <<"5">>, Tok.char>>>>},
        f \in FntFiles}

\* error(...) of scanInt and handleFntToken; the older tool's messages do
\* not carry the line number.
FntError(p, message) ==
    [p EXCEPT !.pc = "error",
              !.error = IF p.variant = "new"
                        THEN <<message, p.st.lineNum>> ELSE <<message>>]

\* Variant: every id= token selects a glyph.
SelectsGlyph_AnyId(token, prevTokenWasChar) == strStartsWith(token, Tok.id)

\* strStartsWith(token, "id=") && parser.prevTokenWasChar
SelectsGlyph(token, prevTokenWasChar) ==
    strStartsWith(token, Tok.id) /\ prevTokenWasChar

\* The tail of handleFntToken, reached by every branch that does not throw.
TokenDone(p) ==
    [p EXCEPT !.sets[p.k].charWidth = p.st.largestWidth,
              !.sets[p.k].charHeight = p.st.largestHeight,
              !.st.prevTokenWasChar = FALSE]

\* parser.currentChar->x = ..., parser.currentChar->y = ...  With assertions
\* compiled in, a null currentChar aborts; without them the store goes
\* through the null pointer.  A currentChar left by an earlier call points
\* into that call's FontCharSet, which may be gone.
WriteChar(p, field, number) ==
    LET c == p.st.currentChar
        glyph == [CharAt(p.sets[c.set], c.index) EXCEPT
                    ![field] = number.value % UShortRange]
        stored == [p EXCEPT !.sets[c.set].chars =
                        (c.index :> glyph) @@ p.sets[c.set].chars]
    IN  IF c = NullChar /\ ~p.ndebug THEN {[p EXCEPT !.pc = "aborted"]}
        ELSE IF ~number.ok
        THEN {FntError(p, "FNT parse error: Expected number instead of token")}
        ELSE IF c = NullChar
        THEN {[p EXCEPT !.pc = "crashed"], TokenDone([p EXCEPT !.wild = TRUE])}
        ELSE IF c.set # p.k
        THEN {[p EXCEPT !.pc = "crashed"], TokenDone(stored)}
        ELSE {TokenDone(stored)}

\* (*fntBitmapFile) = token + 5, less the quotes; front() of an empty string
\* is undefined.
FileToken(p, name) ==
    LET stripped == SubSeq(name, 2, Len(name) - 1)
    IN  IF ~p.wantsName THEN {TokenDone(p)}
        ELSE IF name = <<>>
        THEN {TokenDone([p EXCEPT !.fntBitmapFile = name]),
              [p EXCEPT !.pc = "crashed"]}
        ELSE IF name[1] = "\""
        THEN {TokenDone([p EXCEPT !.fntBitmapFile = stripped])}
        ELSE {TokenDone([p EXCEPT !.fntBitmapFile = name])}

\* handleFntToken: the states it can leave the parser in.
handleFntToken(p, token) ==
    IF token = Tok.char
    THEN {[p EXCEPT !.st.prevTokenWasChar = TRUE]}
    ELSE IF strStartsWith(token, Tok.base)
    THEN LET n == scanInt(Skip(token, 5))
         IN  IF ~n.ok
             THEN {FntError(p, "FNT parse error: Expected number instead of token")}
             ELSE {TokenDone([p EXCEPT !.sets[p.k].charBaseHeight = n.value])}
    ELSE IF strStartsWith(token, Tok.file)
    THEN FileToken(p, Skip(token, 5))
    ELSE IF SelectsGlyph(token, p.st.prevTokenWasChar)
    THEN LET charIndex == scanInt(Skip(token, 3))
         IN  IF ~charIndex.ok
             THEN {FntError(p, "FNT parse error: Expected number instead of token")}
             ELSE IF charIndex.value < 0 \/ charIndex.value >= MaxChars
             THEN {FntError(p, "Char index out-of-range!")}
             ELSE {TokenDone([p EXCEPT
                        !.st.currentChar = [set |-> p.k,
                                            index |-> charIndex.value],
                        !.sets[p.k].charCount = @ + 1])}
    ELSE IF strStartsWith(token, Tok.x)
    THEN WriteChar(p, "x", scanInt(Skip(token, 2)))
    ELSE IF strStartsWith(token, Tok.y)
    THEN WriteChar(p, "y", scanInt(Skip(token, 2)))
    ELSE IF strStartsWith(token, Tok.height)
    THEN LET height == scanInt(Skip(token, 7))
         IN  IF ~height.ok
             THEN {FntError(p, "FNT parse error: Expected number instead of token")}
             ELSE {TokenDone([p EXCEPT !.st.largestHeight =
                                            Max(height.value, @)])}
    ELSE IF strStartsWith(token, Tok.xadvance)
    THEN LET width == scanInt(Skip(token, 9))
         IN  IF ~width.ok
             THEN {FntError(p, "FNT parse error: Expected number instead of token")}
             ELSE {TokenDone([p EXCEPT !.st.largestWidth =
                                            Max(width.value, @)])}
    ELSE {TokenDone(p)}

\* The file being parsed.
FntFile(p) == p.files[p.k]

\* Variant: the parser of the previous call is used again.
NewParser_Kept(p) == p.st

\* TextFntParser parser; of parseTextFntFile: a new parser for each call in
\* fnt.cpp, the statics of handleFntToken in the older tool.
NewParser(p) == IF p.variant = "new" THEN TextFntParser(p.variant) ELSE p.st

\* parseTextFntFile up to the read loop: the parser and std::fopen.
Opened(p) ==
    IF FntFile(p) = NoFile
    THEN FntError([p EXCEPT !.st = NewParser(p)],
                  "Unable to open FNT file for reading!")
    ELSE [p EXCEPT !.st = NewParser(p), !.pc = "line"]

FntOpen ==
    /\ parser.pc = "open"
    /\ parser' = Opened(parser)
    /\ UNCHANGED <<pc, call, enc, dec, api, fmt, tool, par, cmd>>

\* std::fgets and, in fnt.cpp, parser.lineNum++: the one line of the file,
\* or the end of the file.
LineRead(p) ==
    LET counted == IF p.variant = "new"
                   THEN [p EXCEPT !.st.lineNum = @ + 1] ELSE p
    IN  IF ~p.lineRead /\ FntFile(p) # <<>>
        THEN [counted EXCEPT !.lineRead = TRUE, !.pos = 1, !.pc = "token"]
        ELSE [counted EXCEPT !.pc = "close"]

FntLine ==
    /\ parser.pc = "line"
    /\ parser' = LineRead(parser)
    /\ UNCHANGED <<pc, call, enc, dec, api, fmt, tool, par, cmd>>

\* One pass of the strtok loop: handleFntToken, then the next token.
TokenRead(p) ==
    {IF q.pc # "token" THEN q
     ELSE IF p.pos = Len(FntFile(p)) THEN [q EXCEPT !.pc = "line"]
     ELSE [q EXCEPT !.pos = @ + 1] :
        q \in handleFntToken(p, FntFile(p)[p.pos])}

FntToken ==
    /\ parser.pc = "token"
    /\ parser' \in TokenRead(parser)
    /\ UNCHANGED <<pc, call, enc, dec, api, fmt, tool, par, cmd>>

\* The file is closed and parseTextFntFile returns; the process may go on
\* to parse the next file into a new FontCharSet.
FntReturn ==
    /\ parser.pc = "close"
    /\ parser' = IF parser.k = Len(parser.files)
                 THEN [parser EXCEPT !.pc = "done"]
                 ELSE [parser EXCEPT !.k = @ + 1, !.pos = 1,
                                     !.lineRead = FALSE,
                                     !.sets = Append(@, FontCharSet),
                                     !.pc = "open"]
    /\ UNCHANGED <<pc, call, enc, dec, api, fmt, tool, par, cmd>>

InitFnt ==
    /\ CodecIdle
    /\ api = Idle /\ fmt = Idle /\ tool = Idle /\ par = Idle /\ cmd = Idle
    /\ parser \in FntRuns

NextFnt ==
    \/ FntOpen
    \/ FntLine
    \/ FntToken
    \/ FntReturn

SpecFnt == InitFnt /\ [][NextFnt]_vars

-----------------------------------------------------------------------------
(* Claims about the FNT parser.                                             *)

\* The token handed to handleFntToken just before the current one, if any:
\* the parser state of the older tool outlives the file.
TokenBefore(p) ==
    LET earlier == {j \in 1..(p.k - 1) : p.files[j] # <<>>}
        last == CHOOSE j \in earlier : \A i \in earlier : i <= j
    IN  IF p.pos > 1 THEN FntFile(p)[p.pos - 1]
        ELSE IF p.variant = "legacy" /\ earlier # {}
        THEN p.files[last][Len(p.files[last])]
        ELSE <<>>

\* C27: when handleFntToken returns from an id=N token, it has selected
\* glyph N and incremented charCount if the token just before was 'char',
\* and has changed neither otherwise; and it leaves the was-char flag set
\* exactly when its token is 'char'.
IdSelectsOnlyAfterChar ==
    [][(parser.pc = "token" /\ parser'.pc \in {"token", "line"})
        => LET tok == FntFile(parser)[parser.pos]
               k == parser.k
               selected ==
                   /\ parser'.st.currentChar =
                        [set |-> k, index |-> scanInt(Skip(tok, 3)).value]
                   /\ parser'.sets[k].charCount = parser.sets[k].charCount + 1
               untouched ==
                   /\ parser'.st.currentChar = parser.st.currentChar
                   /\ parser'.sets[k].charCount = parser.sets[k].charCount
           IN  /\ strStartsWith(tok, Tok.id)
                    => IF TokenBefore(parser) = Tok.char
                       THEN selected ELSE untouched
               /\ parser'.st.prevTokenWasChar = (tok = Tok.char)]_vars

IdSelectsOnlyAfterChar_Witness ==
    /\ parser.pc = "line"
    /\ parser.lineRead
    /\ FntFile(parser) = <<Tok.page, Tok.id \o <<"1">>, Tok.char>>
    /\ parser.k = 1
    /\ parser.st.currentChar = NullChar
    /\ parser.sets[1].charCount = 0
    /\ parser.st.prevTokenWasChar

\* C28: in a first parse the assertions of handleFntToken hold and every
\* glyph written is one of chars[0..255]: no x= or y= token is handled while
\* no glyph is selected.
GlyphWritesGuarded ==
    (parser.pc # "idle" /\ parser.k = 1)
        => /\ parser.pc \notin {"aborted", "crashed"}
           /\ ~parser.wild
           /\ DOMAIN parser.sets[1].chars \subseteq 0..(MaxChars - 1)
           /\ parser.st.currentChar.index \in -1..(MaxChars - 1)

\* parseTextFntFile on file j of the run as the only file of a process; pc
\* is "close" when it returns.
RECURSIVE AloneFrom(_)
AloneFrom(q) ==
    IF q.pc # "token" THEN q
    ELSE IF Cardinality(TokenRead(q)) # 1 THEN [q EXCEPT !.pc = "undefined"]
    ELSE AloneFrom(CHOOSE o \in TokenRead(q) : TRUE)

Alone(p, j) ==
    LET opened == Opened(FntStart(p.variant, p.ndebug, p.wantsName,
                                  <<p.files[j]>>))
        line == IF opened.pc = "line" THEN LineRead(opened) ELSE opened
        tokens == AloneFrom(line)
    IN  IF tokens.pc = "line" THEN LineRead(tokens) ELSE tokens

SameGlyphs(a, b) ==
    /\ a.charWidth = b.charWidth
    /\ a.charHeight = b.charHeight
    /\ \A n \in DOMAIN a.chars \cup DOMAIN b.chars : CharAt(a, n) = CharAt(b, n)

\* Every call that has returned left what the same file alone leaves.
ReturnedAsAlone(p) ==
    \A j \in 1..p.k :
        (j < p.k \/ p.pc \in {"close", "done"})
            => (Alone(p, j).pc = "close"
                    => SameGlyphs(p.sets[j], Alone(p, j).sets[1]))

\* C29 as stated: every call of parseTextFntFile, in either tool, gives its
\* FontCharSet the charWidth, charHeight and glyph positions that parsing
\* the same file alone gives.
ParsesAreIndependent == parser.pc # "idle" => ReturnedAsAlone(parser)

\* C29: every call of parseTextFntFile of fnt.cpp, which keeps its state in
\* a TextFntParser of its own, gives its FontCharSet the charWidth,
\* charHeight and glyph positions that parsing the same file alone gives.
ParserObjectKeepsCallsApart ==
    (parser.pc # "idle" /\ parser.variant = "new") => ReturnedAsAlone(parser)

ParserObjectKeepsCallsApart_Witness ==
    /\ parser.pc = "done"
    /\ parser.variant = "new"
    /\ parser.files = <<<<Tok.char, Tok.id \o <<"1">>, Tok.height \o <<"4">>>>,
                        <<Tok.xadvance \o <<"5">>>>>>
    /\ parser.sets[2].charHeight = 0
    /\ parser.sets[2].charWidth = 5

====
